---- MODULE Spec2Model ----
(***************************************************************************)
(* Model of the catalog graph builder of service-rag                       *)
(* (src/src/ingest/entities_catalog.py).                                    *)
(*                                                                         *)
(* The store (LightRAG's acreate_entity / acreate_relation) is an external *)
(* collaborator: a create of a present key raises ValueError("... already  *)
(* exists"), and any create may fail for another reason, either with a     *)
(* ValueError carrying another message or with another exception.          *)
(*                                                                         *)
(* One action models one loop iteration of the builder up to and including *)
(* its single awaited store call and the handling of that call's outcome.  *)
(***************************************************************************)
EXTENDS Integers, Sequences, FiniteSets, TLC

\* -------------------------------------------------------------------------
\* Bounds of the model
\* -------------------------------------------------------------------------

\* How many times build_entity_catalog is run against the same store.
MaxRuns == 2

\* How many store calls may fail for a reason other than "already exists".
MaxFailures == 1

\* -------------------------------------------------------------------------
\* Text: a name is a sequence of one-character strings
\* -------------------------------------------------------------------------

UpperChars == <<"A","B","C","D","E","F","G","H","I","J","K","L","M",
                "N","O","P","Q","R","S","T","U","V","W","X","Y","Z">>

LowerChars == <<"a","b","c","d","e","f","g","h","i","j","k","l","m",
                "n","o","p","q","r","s","t","u","v","w","x","y","z">>

\* str.lower() on one character
LowerChar(ch) ==
    IF \E i \in 1..Len(UpperChars) : UpperChars[i] = ch
    THEN LowerChars[CHOOSE i \in 1..Len(UpperChars) : UpperChars[i] = ch]
    ELSE ch

\* str.lower()
Lower(s) == [i \in 1..Len(s) |-> LowerChar(s[i])]

\* Python's `sub in s` on strings
Contains(sub, s) ==
    \E i \in 1..(Len(s) - Len(sub) + 1) : SubSeq(s, i, i + Len(sub) - 1) = sub

\* The words the tag rules look for in a column name
TagWords ==
    [password |-> <<"p","a","s","s","w","o","r","d">>,
     email    |-> <<"e","m","a","i","l">>,
     time     |-> <<"t","i","m","e">>,
     date     |-> <<"d","a","t","e">>,
     token    |-> <<"t","o","k","e","n">>,
     secret   |-> <<"s","e","c","r","e","t">>]

\* -------------------------------------------------------------------------
\* Static taxonomy
\* -------------------------------------------------------------------------

\* DATABASE_CONFIGS, in dict order
DbKeys == <<"mysql_db", "postgres_db">>

DATABASE_CONFIGS ==
    [mysql_db    |-> [name |-> "mysql_application_db", type |-> "MySQL"],
     postgres_db |-> [name |-> "postgres_legacy_db",   type |-> "PostgreSQL"]]

DEFAULT_OWNER == [name |-> "Database Team"]

\* COMMON_TAGS, the names in list order
COMMON_TAGS == <<"PII", "Authentication", "Timestamp",
                 "Foreign_Key", "Primary_Key", "Required">>

\* -------------------------------------------------------------------------
\* Composite keys.  Names come from \w+ captures of the parsers, so they
\* hold neither '.' nor ':' and the formatted key
\* "Table:<db>.<table>" determines its parts; a key is modelled as the
\* tuple of its parts, the owner and the tags by their bare name.
\* -------------------------------------------------------------------------

OwnerKey == <<DEFAULT_OWNER.name>>

TagKey(tag) == <<tag>>

DatabaseKey(db_key) == <<"Database", DATABASE_CONFIGS[db_key].name>>

TableKey(db_key, table_name) ==
    <<"Table", DATABASE_CONFIGS[db_key].name, table_name>>

ColumnKey(db_key, table_name, column_name) ==
    <<"Column", DATABASE_CONFIGS[db_key].name, table_name, column_name>>

\* -------------------------------------------------------------------------
\* Parsed schemas: the Table maps parser.parse() hands to the builder.
\* A map is the sequence of its tables in dict (first-seen) order; a Table
\* holds its column list and its foreign-key list (models/schema.py).
\* -------------------------------------------------------------------------

Column(name, nullable, is_primary_key, is_foreign_key) ==
    [name |-> name, nullable |-> nullable,
     is_primary_key |-> is_primary_key, is_foreign_key |-> is_foreign_key]

ForeignKey(column, ref_table, ref_column) ==
    [column |-> column, ref_table |-> ref_table, ref_column |-> ref_column]

Table(name, columns, foreign_keys) ==
    [name |-> name, columns |-> columns, foreign_keys |-> foreign_keys]

\* The column names of the sample schemas
ColumnNames ==
    [id         |-> <<"i","d">>,
     buyer_id   |-> <<"b","u","y","e","r","_","i","d">>,
     seller_id  |-> <<"s","e","l","l","e","r","_","i","d">>,
     coupon_id  |-> <<"c","o","u","p","o","n","_","i","d">>,
     Email      |-> <<"E","m","a","i","l">>,
     login_time |-> <<"l","o","g","i","n","_","t","i","m","e">>]

\* users(id); orders(buyer_id, seller_id) with two foreign keys to users and
\* one to a table the dump does not declare.
ShopTables ==
    << Table("users",
             << Column(ColumnNames.id, FALSE, TRUE, FALSE) >>,
             << >>),
       Table("orders",
             << Column(ColumnNames.buyer_id, FALSE, FALSE, TRUE),
                Column(ColumnNames.seller_id, TRUE, FALSE, TRUE) >>,
             << ForeignKey(ColumnNames.buyer_id, "users", ColumnNames.id),
                ForeignKey(ColumnNames.coupon_id, "coupons", ColumnNames.id),
                ForeignKey(ColumnNames.seller_id, "users", ColumnNames.id) >>) >>

\* audit(Email, login_time); misc has no column line.
LegacyTables ==
    << Table("audit",
             << Column(ColumnNames.Email, FALSE, FALSE, FALSE),
                Column(ColumnNames.login_time, TRUE, FALSE, FALSE) >>,
             << >>),
       Table("misc", << >>, << >>) >>

\* A dump without any CREATE TABLE
NoTables == << >>

\* What the DDL source of a configured database may be: missing, or a file
\* that parses to one of the maps above.
Sources ==
    [mysql_db    : {[exists |-> FALSE, tables |-> NoTables],
                    [exists |-> TRUE,  tables |-> NoTables],
                    [exists |-> TRUE,  tables |-> ShopTables]},
     postgres_db : {[exists |-> FALSE, tables |-> NoTables],
                    [exists |-> TRUE,  tables |-> LegacyTables]}]

HasTable_Always(tables, name) == TRUE

\* `name in tables` on the dict
HasTable(tables, name) == \E i \in 1..Len(tables) : tables[i].name = name

\* -------------------------------------------------------------------------
\* Column tagging heuristic
\* -------------------------------------------------------------------------

Opt(cond, tag) == IF cond THEN <<tag>> ELSE << >>

DeriveTags_NoLower(column) ==
       Opt(column.is_primary_key, "Primary_Key")
    \o Opt(column.is_foreign_key, "Foreign_Key")
    \o Opt(~column.nullable, "Required")
    \o Opt(Contains(TagWords.password, column.name)
           \/ Contains(TagWords.email, column.name), "PII")
    \o Opt(Contains(TagWords.time, Lower(column.name))
           \/ Contains(TagWords.date, Lower(column.name)), "Timestamp")
    \o Opt(Lower(column.name) \in {TagWords.password, TagWords.token, TagWords.secret},
           "Authentication")

\* tags_to_add, in append order
DeriveTags(column) ==
       Opt(column.is_primary_key, "Primary_Key")
    \o Opt(column.is_foreign_key, "Foreign_Key")
    \o Opt(~column.nullable, "Required")
    \o Opt(Contains(TagWords.password, Lower(column.name))
           \/ Contains(TagWords.email, Lower(column.name)), "PII")
    \o Opt(Contains(TagWords.time, Lower(column.name))
           \/ Contains(TagWords.date, Lower(column.name)), "Timestamp")
    \o Opt(Lower(column.name) \in {TagWords.password, TagWords.token, TagWords.secret},
           "Authentication")

Range(seq) == {seq[i] : i \in 1..Len(seq)}

\* -------------------------------------------------------------------------
\* State
\* -------------------------------------------------------------------------

VARIABLES
    entities,   \* the store's entities: records [name, entity_type, ordinal]
    relations,  \* the store's relations: records [src, tgt, relation_type,
                \*   ordinal, from_column, to_column], one per (src, tgt)
    sources,    \* db_key -> [exists, tables]: the DDL source of each database
    failures,   \* store calls that failed otherwise than "already exists"
    builders,   \* process -> frame of its build_entity_catalog call
    probe,      \* a column handed to the tagging heuristic, and its tags
    fmt,        \* frame of a format_chunks_hierarchical call
    parser,     \* frame of a parser call
    query       \* frame of a RAGService.query call

vars ==
    <<entities, relations, sources, failures, builders, probe, fmt, parser,
      query>>

\* -------------------------------------------------------------------------
\* The store collaborator
\* -------------------------------------------------------------------------

EntityExists(name) == \E e \in entities : e.name = name

RelationExists(src, tgt) == \E r \in relations : r.src = src /\ r.tgt = tgt

\* What a create call can answer: "ok" (created), "exists" (ValueError
\* "... already exists"), "value_error" (a ValueError with another message),
\* "error" (any other exception).
Outcomes(present) ==
    (IF present THEN {"exists"} ELSE {"ok"})
    \cup (IF failures < MaxFailures THEN {"value_error", "error"} ELSE {})

IsFailure(result) == result \in {"value_error", "error"}

\* rag.acreate_entity(entity_name, entity_data) answering `result`
AcreateEntity(name, entity_type, ordinal, result) ==
    /\ result \in Outcomes(EntityExists(name))
    /\ entities' =
         IF result = "ok"
         THEN entities \cup {[name |-> name, entity_type |-> entity_type,
                              ordinal |-> ordinal]}
         ELSE entities
    /\ relations' = relations
    /\ failures' = IF IsFailure(result) THEN failures + 1 ELSE failures

\* rag.acreate_relation(source_entity, target_entity, relation_data)
AcreateRelation(src, tgt, relation_type, ordinal, from_col, to_col, result) ==
    /\ result \in Outcomes(RelationExists(src, tgt))
    /\ relations' =
         IF result = "ok"
         THEN relations \cup {[src |-> src, tgt |-> tgt,
                               relation_type |-> relation_type,
                               ordinal |-> ordinal,
                               from_column |-> from_col,
                               to_column |-> to_col]}
         ELSE relations
    /\ entities' = entities
    /\ failures' = IF IsFailure(result) THEN failures + 1 ELSE failures

\* -------------------------------------------------------------------------
\* The except clauses: what the builder does with a call's answer.
\* "next": go on after the try; "continue": next loop iteration;
\* "raise": the exception leaves build_entity_catalog.
\* -------------------------------------------------------------------------

HandleCreate_RaiseOnExists(result) ==
    IF result = "ok" THEN "next" ELSE "raise"

\* except ValueError as e: if "already exists" in str(e): log  else: raise
HandleCreate(result) ==
    IF result \in {"ok", "exists"} THEN "next" ELSE "raise"

HandleColumn_Raise(result) ==
    CASE result = "ok" -> "next"
      [] OTHER -> "raise"

\* the Column entity: ... if "already exists": log; continue  else: raise
HandleColumn(result) ==
    CASE result = "ok" -> "next"
      [] result = "exists" -> "continue"
      [] OTHER -> "raise"

\* the TAGGED relation: except ValueError: pass
HandleTagged(result) ==
    IF result = "error" THEN "raise" ELSE "next"

\* -------------------------------------------------------------------------
\* The frame of one build_entity_catalog call and its control flow.
\* pc names the store call the build is suspended before; steps logs the
\* builder methods entered, calls the store calls made and their answers.
\* The histories steps, calls and warnings are kept while log is TRUE.
\* -------------------------------------------------------------------------

NoStats == [databases |-> 0, tables |-> 0, columns |-> 0, foreign_keys |-> 0]

\* build_entity_catalog entered: stats zeroed, create_owner_entity entered.
\* snapshot remembers the store the run started on.
StartFrame(run, prev, snapshot) ==
    [pc |-> "owner", db |-> 0, tables |-> << >>, t |-> 0, c |-> 0, k |-> 0,
     f |-> 0, tags_to_add |-> << >>, column_count |-> 0, fk_count |-> 0,
     stats |-> NoStats,
     steps |-> << <<"create_owner_entity", "-">> >>,
     calls |-> << >>, warnings |-> << >>, faults |-> 0, log |-> TRUE,
     run |-> run, prev |-> prev, snapshot |-> snapshot]

DbKeyOf(b) == DbKeys[b.db]

Enter(b, method) ==
    [b EXCEPT !.steps = IF b.log THEN Append(@, <<method, DbKeyOf(b)>>)
                        ELSE @]

\* the exception leaves build_entity_catalog
Raise(b) == [b EXCEPT !.pc = "failed"]

\* lexicographic order on loop positions <<outer index, inner index>>
Less(p, q) == p[1] < q[1] \/ (p[1] = q[1] /\ p[2] < q[2])

NoPos == <<0, 0>>

\* the first position of S after p, NoPos when the loops are exhausted
FirstAfter(S, p) ==
    LET A == {q \in S : Less(p, q)}
    IN  IF A = {} THEN NoPos
        ELSE CHOOSE q \in A : \A r \in A : q = r \/ Less(q, r)

ColumnPositions(tables) ==
    UNION {{<<t, c>> : c \in 1..Len(tables[t].columns)} :
              t \in 1..Len(tables)}

ForeignKeyPositions(tables) ==
    UNION {{<<t, f>> : f \in 1..Len(tables[t].foreign_keys)} :
              t \in 1..Len(tables)}

\* for db_key, config in DATABASE_CONFIGS.items(): ... return stats
LoopDatabases(b, i) ==
    IF i <= Len(DbKeys)
    THEN [b EXCEPT !.pc = "dbloop", !.db = i]
    ELSE [b EXCEPT !.pc = "done"]

\* stats["foreign_keys"] += fk_count
ReturnForeignKeys(b) ==
    LoopDatabases([b EXCEPT !.stats.foreign_keys = @ + b.fk_count], b.db + 1)

\* for table_name, table in tables.items(): for fk in table.foreign_keys:
LoopForeignKeys(b, p) ==
    LET q == FirstAfter(ForeignKeyPositions(b.tables), p)
    IN  IF q = NoPos THEN ReturnForeignKeys(b)
        ELSE [b EXCEPT !.pc = "fk", !.t = q[1], !.f = q[2]]

EnterForeignKeys(b) ==
    LoopForeignKeys(
        [Enter(b, "create_foreign_key_relations") EXCEPT !.fk_count = 0],
        NoPos)

\* stats["columns"] += col_count
ReturnColumns(b) ==
    EnterForeignKeys([b EXCEPT !.stats.columns = @ + b.column_count])

\* for table_name, table in tables.items():
\*     for idx, column in enumerate(table.columns, 1):
LoopColumns(b, p) ==
    LET q == FirstAfter(ColumnPositions(b.tables), p)
    IN  IF q = NoPos THEN ReturnColumns(b)
        ELSE [b EXCEPT !.pc = "column", !.t = q[1], !.c = q[2]]

EnterColumns(b) ==
    LoopColumns(
        [Enter(b, "create_column_entities") EXCEPT !.column_count = 0],
        NoPos)

\* stats["tables"] += len(tables)
ReturnTables(b) ==
    EnterColumns([b EXCEPT !.stats.tables = @ + Len(b.tables)])

\* for table_name, table in tables.items():
LoopTables(b, i) ==
    IF i <= Len(b.tables)
    THEN [b EXCEPT !.pc = "table", !.t = i]
    ELSE ReturnTables(b)

EnterTables(b) == LoopTables(Enter(b, "create_table_entities"), 1)

ReturnDatabase_ColumnsFirst(b) ==
    EnterColumns([b EXCEPT !.stats.databases = @ + 1])

\* stats["databases"] += 1
ReturnDatabase(b) ==
    EnterTables([b EXCEPT !.stats.databases = @ + 1])

\* for tag in COMMON_TAGS:
LoopTags(b, i) ==
    IF i <= Len(COMMON_TAGS)
    THEN [b EXCEPT !.pc = "tag", !.k = i]
    ELSE LoopDatabases(b, 1)

EnterTags_NoTags(b) ==
    LoopDatabases(
        [b EXCEPT !.steps = IF b.log THEN Append(@, <<"create_tags", "-">>)
                            ELSE @], 1)

EnterTags(b) ==
    LoopTags(
        [b EXCEPT !.steps = IF b.log THEN Append(@, <<"create_tags", "-">>)
                            ELSE @], 1)

\* column_count += 1, then the next column
CountColumn(b) ==
    LoopColumns([b EXCEPT !.column_count = @ + 1], <<b.t, b.c>>)

\* for tag in tags_to_add:
LoopTagged(b, i) ==
    IF i <= Len(b.tags_to_add)
    THEN [b EXCEPT !.pc = "tagged", !.k = i]
    ELSE CountColumn(b)

\* the answer of a store call, as the frame's history keeps it
Logged(b, site, db, src, tgt, result) ==
    [b EXCEPT !.calls = IF b.log
                        THEN Append(@, [site |-> site, db |-> db, src |-> src,
                                        tgt |-> tgt, result |-> result])
                        ELSE @,
              !.faults = IF IsFailure(result) THEN @ + 1 ELSE @]

\* an entity call has no target
NoKey == << >>

\* -------------------------------------------------------------------------
\* Actions of the build: one awaited store call each
\* -------------------------------------------------------------------------

Step(p, b) ==
    /\ builders' = [builders EXCEPT ![p] = b]
    /\ UNCHANGED <<sources, probe, fmt, parser, query>>

\* create_owner_entity
CreateOwnerEntity(p) ==
    LET b == builders[p] IN
    /\ b.pc = "owner"
    /\ \E result \in {"ok", "exists", "value_error", "error"} :
         /\ AcreateEntity(OwnerKey, "owner", 0, result)
         /\ LET b1 == Logged(b, "owner", "-", OwnerKey, NoKey, result)
            IN  Step(p, IF HandleCreate(result) = "raise"
                        THEN Raise(b1) ELSE EnterTags(b1))

\* create_tags, one iteration
CreateTag(p) ==
    LET b == builders[p]
        name == TagKey(COMMON_TAGS[b.k]) IN
    /\ b.pc = "tag"
    /\ \E result \in {"ok", "exists", "value_error", "error"} :
         /\ AcreateEntity(name, "tag", 0, result)
         /\ LET b1 == Logged(b, "tag", "-", name, NoKey, result)
            IN  Step(p, IF HandleCreate(result) = "raise"
                        THEN Raise(b1) ELSE LoopTags(b1, b.k + 1))

SourceMissing_Never(db_key) == FALSE

\* not sql_file.exists()
SourceMissing(db_key) == ~sources[db_key].exists

\* build_entity_catalog, head of the database loop: the file check, the
\* parser choice and parser.parse()
ProcessDatabase(p) ==
    LET b == builders[p]
        db_key == DbKeyOf(b)
        config == DATABASE_CONFIGS[db_key] IN
    /\ b.pc = "dbloop"
    /\ UNCHANGED <<entities, relations, failures>>
    /\ Step(p, IF SourceMissing(db_key)
               THEN LoopDatabases(b, b.db + 1)
               ELSE IF config.type \notin {"MySQL", "PostgreSQL"}
               THEN LoopDatabases(b, b.db + 1)
               ELSE [Enter(b, "create_database_entity")
                        EXCEPT !.pc = "database",
                               !.tables = sources[db_key].tables])

\* create_database_entity
CreateDatabaseEntity(p) ==
    LET b == builders[p]
        db_key == DbKeyOf(b)
        name == DatabaseKey(db_key) IN
    /\ b.pc = "database"
    /\ \E result \in {"ok", "exists", "value_error", "error"} :
         /\ AcreateEntity(name, "database", 0, result)
         /\ LET b1 == Logged(b, "database", db_key, name, NoKey, result)
            IN  Step(p, IF HandleCreate(result) = "raise"
                        THEN Raise(b1) ELSE ReturnDatabase(b1))

\* create_table_entities: the Table entity
CreateTableEntity(p) ==
    LET b == builders[p]
        db_key == DbKeyOf(b)
        name == TableKey(db_key, b.tables[b.t].name) IN
    /\ b.pc = "table"
    /\ \E result \in {"ok", "exists", "value_error", "error"} :
         /\ AcreateEntity(name, "table", 0, result)
         /\ LET b1 == Logged(b, "table", db_key, name, NoKey, result)
            IN  Step(p, IF HandleCreate(result) = "raise"
                        THEN Raise(b1) ELSE [b1 EXCEPT !.pc = "has_table"])

\* create_table_entities: Database -> Table
CreateHasTable(p) ==
    LET b == builders[p]
        db_key == DbKeyOf(b)
        src == DatabaseKey(db_key)
        tgt == TableKey(db_key, b.tables[b.t].name) IN
    /\ b.pc = "has_table"
    /\ \E result \in {"ok", "exists", "value_error", "error"} :
         /\ AcreateRelation(src, tgt, "HAS_TABLE", 0, << >>, << >>, result)
         /\ LET b1 == Logged(b, "has_table", db_key, src, tgt, result)
            IN  Step(p, IF HandleCreate(result) = "raise"
                        THEN Raise(b1) ELSE [b1 EXCEPT !.pc = "owned_by"])

\* create_table_entities: Table -> Owner, then the next table
CreateOwnedBy(p) ==
    LET b == builders[p]
        db_key == DbKeyOf(b)
        src == TableKey(db_key, b.tables[b.t].name)
        tgt == OwnerKey IN
    /\ b.pc = "owned_by"
    /\ \E result \in {"ok", "exists", "value_error", "error"} :
         /\ AcreateRelation(src, tgt, "OWNED_BY", 0, << >>, << >>, result)
         /\ LET b1 == Logged(b, "owned_by", db_key, src, tgt, result)
            IN  Step(p, IF HandleCreate(result) = "raise"
                        THEN Raise(b1) ELSE LoopTables(b1, b.t + 1))

\* create_column_entities: the Column entity
CreateColumnEntity(p) ==
    LET b == builders[p]
        db_key == DbKeyOf(b)
        table == b.tables[b.t]
        column == table.columns[b.c]
        name == ColumnKey(db_key, table.name, column.name) IN
    /\ b.pc = "column"
    /\ \E result \in {"ok", "exists", "value_error", "error"} :
         /\ AcreateEntity(name, "column", b.c, result)
         /\ LET b1 == Logged(b, "column", db_key, name, NoKey, result)
                todo == HandleColumn(result)
            IN  Step(p, CASE todo = "raise" -> Raise(b1)
                          [] todo = "continue" -> LoopColumns(b1, <<b.t, b.c>>)
                          [] OTHER -> [b1 EXCEPT !.pc = "has_column"])

\* create_column_entities: Table -> Column, then tags_to_add is derived
CreateHasColumn(p) ==
    LET b == builders[p]
        db_key == DbKeyOf(b)
        table == b.tables[b.t]
        column == table.columns[b.c]
        src == TableKey(db_key, table.name)
        tgt == ColumnKey(db_key, table.name, column.name) IN
    /\ b.pc = "has_column"
    /\ \E result \in {"ok", "exists", "value_error", "error"} :
         /\ AcreateRelation(src, tgt, "HAS_COLUMN", b.c, << >>, << >>, result)
         /\ LET b1 == Logged(b, "has_column", db_key, src, tgt, result)
            IN  Step(p, IF HandleCreate(result) = "raise"
                        THEN Raise(b1)
                        ELSE LoopTagged(
                               [b1 EXCEPT !.tags_to_add = DeriveTags(column)],
                               1))

\* create_column_entities: Column -> Tag, one iteration
CreateTagged(p) ==
    LET b == builders[p]
        db_key == DbKeyOf(b)
        table == b.tables[b.t]
        column == table.columns[b.c]
        src == ColumnKey(db_key, table.name, column.name)
        tgt == TagKey(b.tags_to_add[b.k]) IN
    /\ b.pc = "tagged"
    /\ \E result \in {"ok", "exists", "value_error", "error"} :
         /\ AcreateRelation(src, tgt, "TAGGED", 0, << >>, << >>, result)
         /\ LET b1 == Logged(b, "tagged", db_key, src, tgt, result)
            IN  Step(p, IF HandleTagged(result) = "raise"
                        THEN Raise(b1) ELSE LoopTagged(b1, b.k + 1))

\* create_foreign_key_relations, one iteration
CreateForeignKeyRelation(p) ==
    LET b == builders[p]
        db_key == DbKeyOf(b)
        table == b.tables[b.t]
        fk == table.foreign_keys[b.f]
        src == TableKey(db_key, table.name)
        tgt == TableKey(db_key, fk.ref_table) IN
    /\ b.pc = "fk"
    /\ IF ~HasTable(b.tables, fk.ref_table)
       THEN \* logger.warning; continue
            /\ UNCHANGED <<entities, relations, failures>>
            /\ Step(p, LoopForeignKeys(
                         [b EXCEPT !.warnings =
                                      IF b.log
                                      THEN Append(@, <<db_key, b.t, b.f>>)
                                      ELSE @],
                         <<b.t, b.f>>))
       ELSE \E result \in {"ok", "exists", "value_error", "error"} :
              /\ AcreateRelation(src, tgt, "REFERENCES", 0,
                                 fk.column, fk.ref_column, result)
              /\ LET b1 == Logged(b, "references", db_key, src, tgt, result)
                     b2 == IF result = "ok"
                           THEN [b1 EXCEPT !.fk_count = @ + 1] ELSE b1
                 IN  Step(p, IF HandleCreate(result) = "raise"
                             THEN Raise(b1)
                             ELSE LoopForeignKeys(b2, <<b.t, b.f>>))

StartRun_Reset(p) ==
    LET b == builders[p] IN
    /\ b.pc \in {"done", "failed"}
    /\ b.run < MaxRuns
    /\ Step(p, StartFrame(b.run + 1, b.pc, <<{}, {}>>))
    /\ entities' = {}
    /\ relations' = {}
    /\ UNCHANGED failures

\* build_entity_catalog is called again on the same store and sources
StartRun(p) ==
    LET b == builders[p] IN
    /\ b.pc \in {"done", "failed"}
    /\ b.run < MaxRuns
    /\ Step(p, StartFrame(b.run + 1, b.pc, <<entities, relations>>))
    /\ UNCHANGED <<entities, relations, failures>>

\* -------------------------------------------------------------------------
\* Specification of the catalog build
\* -------------------------------------------------------------------------

NoProbe ==
    [column |-> Column(<< >>, TRUE, FALSE, FALSE), tags |-> << >>,
     derived |-> FALSE]

NoFormat == [pc |-> "idle"]

Init ==
    /\ entities = {}
    /\ relations = {}
    /\ sources \in Sources
    /\ failures = 0
    /\ builders = [p \in {1} |-> StartFrame(1, "none", <<{}, {}>>)]
    /\ probe = NoProbe
    /\ fmt = NoFormat
    /\ query = [pc |-> "idle"]
    /\ parser = [pc |-> "idle"]

\* one step of a running build_entity_catalog call
BuildStep(p) ==
    \/ CreateOwnerEntity(p)
    \/ CreateTag(p)
    \/ ProcessDatabase(p)
    \/ CreateDatabaseEntity(p)
    \/ CreateTableEntity(p)
    \/ CreateHasTable(p)
    \/ CreateOwnedBy(p)
    \/ CreateColumnEntity(p)
    \/ CreateHasColumn(p)
    \/ CreateTagged(p)
    \/ CreateForeignKeyRelation(p)

Build(p) ==
    \/ BuildStep(p)
    \/ StartRun(p)

Next == \E p \in DOMAIN builders : Build(p)

Spec == Init /\ [][Next]_vars

\* -------------------------------------------------------------------------
\* Specification of two concurrent builds: two build_entity_catalog
\* coroutines over the same sources share one store; they interleave at
\* every awaited store call, and the store fails with "already exists" only.
\* -------------------------------------------------------------------------

InitConcurrent ==
    /\ entities = {}
    /\ relations = {}
    /\ sources \in Sources
    /\ failures = MaxFailures
    /\ builders = [p \in {1, 2} |->
                      [StartFrame(1, "none", <<{}, {}>>) EXCEPT !.log = FALSE]]
    /\ probe = NoProbe
    /\ fmt = NoFormat
    /\ query = [pc |-> "idle"]
    /\ parser = [pc |-> "idle"]

NextConcurrent == \E p \in DOMAIN builders : BuildStep(p)

\* the event loop resumes a coroutine whose store call has answered
SpecConcurrent ==
    InitConcurrent /\ [][NextConcurrent]_vars /\ WF_vars(NextConcurrent)

\* -------------------------------------------------------------------------
\* Specification of the tagging heuristic alone: a column is drawn from
\* every combination of the flags and the names below, and tagged.
\* -------------------------------------------------------------------------

ProbeNames ==
    {<<"e","m","a","i","l">>,
     <<"E","m","a","i","l">>,
     <<"u","s","e","r","_","e","m","a","i","l">>,
     <<"p","a","s","s","w","o","r","d">>,
     <<"P","a","s","s","w","o","r","d">>,
     <<"p","a","s","s","_","w","o","r","d">>,
     <<"t","o","k","e","n">>,
     <<"t","o","k","e","n","s">>,
     <<"s","e","c","r","e","t">>,
     <<"u","p","d","a","t","e","d">>,
     <<"l","o","g","i","n","_","t","i","m","e">>,
     <<"D","A","T","E">>,
     <<"c","r","e","a","t","e","d","_","a","t">>,
     <<"i","d">>}

ProbeColumns ==
    {Column(n, nullable, pk, fk) :
        n \in ProbeNames, nullable \in BOOLEAN, pk \in BOOLEAN,
        fk \in BOOLEAN}

InitTags ==
    /\ entities = {}
    /\ relations = {}
    /\ sources = [mysql_db    |-> [exists |-> FALSE, tables |-> NoTables],
                  postgres_db |-> [exists |-> FALSE, tables |-> NoTables]]
    /\ failures = 0
    /\ builders = << >>
    /\ probe \in [column : ProbeColumns, tags : {<< >>}, derived : {FALSE}]
    /\ fmt = NoFormat
    /\ query = [pc |-> "idle"]
    /\ parser = [pc |-> "idle"]

\* the tagging block of create_column_entities on the probe column
TagColumn ==
    /\ ~probe.derived
    /\ probe' = [probe EXCEPT !.tags = DeriveTags(probe.column),
                              !.derived = TRUE]
    /\ UNCHANGED <<entities, relations, sources, failures, builders, fmt,
                   parser, query>>

NextTags == TagColumn

SpecTags == InitTags /\ [][NextTags]_vars

\* -------------------------------------------------------------------------
\* The hierarchical chunk formatter (utils/chunk_formatter.py)
\*
\* A text is a sequence of tokens; a token is one of the separators ":" and
\* "." or a maximal run of other characters, so that split(':', 1),
\* split('.') and the f-strings are computed on the text itself.
\* -------------------------------------------------------------------------

\* number of hits of a result list
MaxHits == 3

\* str.find: position of the first sep in s, 0 when s has none
IndexOf(s, sep) ==
    IF \E i \in 1..Len(s) : s[i] = sep
    THEN CHOOSE i \in 1..Len(s) :
             s[i] = sep /\ \A j \in 1..(i - 1) : s[j] # sep
    ELSE 0

\* s.split(sep): the pieces between one sep, or an end of s, and the next
Split(s, sep) ==
    LET seps == {k \in 1..Len(s) : s[k] = sep}
        cut(n) == IF n = 0 THEN 0
                  ELSE IF n = Cardinality(seps) + 1 THEN Len(s) + 1
                  ELSE CHOOSE k \in seps :
                           Cardinality({m \in seps : m <= k}) = n
    IN  [n \in 1..(Cardinality(seps) + 1) |->
            SubSeq(s, cut(n - 1) + 1, cut(n) - 1)]

\* entity_type, name of a hit's entity_name
TypeAndName(entity_name) ==
    LET i == IndexOf(entity_name, ":") IN
    IF i # 0
    THEN <<SubSeq(entity_name, 1, i - 1),
           SubSeq(entity_name, i + 1, Len(entity_name))>>
    ELSE <<<<"Unknown">>, entity_name>>

\* the hits a result list is drawn from, as entity_name values
HitKeys ==
    { <<"Column", ":", "db", ".", "users", ".", "email">>,
      <<"Column", ":", "db", ".", "users", ".", "id">>,
      <<"Column", ":", "db", ".", "orders", ".", "id">>,
      <<"Column", ":", "shop", ".", "users", ".", "id">>,
      <<"Table", ":", "db", ".", "users">>,
      <<"Table", ":", "db", ".", "orders">>,
      <<"Database", ":", "db">>,
      <<"Column", ":", "db", ".", "users">>,
      <<"Table", ":", "db">>,
      <<"users">>,
      << >> }

ResultLists == UNION {[1..n -> HitKeys] : n \in 0..MaxHits}

\* what get_neo4j_description does for the keys of one entity type: return
\* a description, return '', or raise
Lookups == [{"Database", "Table", "other"} -> {"text", "empty", "raise"}]

LookupClass(key) ==
    LET type == TypeAndName(key)[1] IN
    IF type = <<"Database">> THEN "Database"
    ELSE IF type = <<"Table">> THEN "Table" ELSE "other"

Raises(f, key) == f.describe[LookupClass(key)] = "raise"

\* await get_neo4j_description(key), when it returns
Describe(f, key) ==
    IF f.describe[LookupClass(key)] = "text" THEN <<"about ">> \o key
    ELSE << >>

\* a or b, on strings
OrElse(a, b) == IF a # << >> THEN a ELSE b

\* db_key and table_key
DbChunkKey(db_name) == <<"Database", ":">> \o db_name

TableChunkKey(db_name, table_name) ==
    <<"Table", ":">> \o db_name \o <<".">> \o table_name

\* locals of a call; hit and own are history fields of a chunk: the index of
\* the hit whose iteration emitted it, and whether it is that hit's own chunk
StartFormat(results, describe, call, first) ==
    [pc |-> "loop", results |-> results, describe |-> describe, i |-> 1,
     chunks |-> << >>, chunk_idx |-> 1, seen_databases |-> {},
     seen_tables |-> {}, call |-> call, first |-> first,
     out |-> [total_chunks |-> 0, chunks |-> << >>]]

\* the exception of a lookup leaves the call
Abort(f) == [f EXCEPT !.pc = "raised"]

\* chunks[f"chunk{chunk_idx}"] = {...}; chunk_idx += 1
Emit(f, entity, content, own) ==
    LET chunk == [Label |-> <<"chunk", f.chunk_idx>>, Entity |-> entity,
                  Content |-> content, hit |-> f.i, own |-> own]
        at == {n \in 1..Len(f.chunks) : f.chunks[n].Label = chunk.Label}
    IN  [f EXCEPT !.chunks = IF at = {} THEN Append(@, chunk)
                             ELSE [n \in 1..Len(@) |->
                                     IF n \in at THEN chunk ELSE @[n]],
                  !.chunk_idx = @ + 1]

AddDatabase_Always(f, db_name) ==
    LET db_key == DbChunkKey(db_name) IN
    IF f.pc = "raised" THEN f
    ELSE IF Raises(f, db_key) THEN Abort(f)
    ELSE Emit(f, db_key,
              OrElse(Describe(f, db_key), <<"Database: ">> \o db_name),
              FALSE)

\* "Add Database if not seen"
AddDatabase(f, db_name) ==
    LET db_key == DbChunkKey(db_name) IN
    IF f.pc = "raised" \/ db_key \in f.seen_databases THEN f
    ELSE IF Raises(f, db_key) THEN Abort(f)
    ELSE [Emit(f, db_key,
               OrElse(Describe(f, db_key), <<"Database: ">> \o db_name),
               FALSE)
            EXCEPT !.seen_databases = @ \cup {db_key}]

AddTable_Always(f, db_name, table_name) ==
    LET table_key == TableChunkKey(db_name, table_name) IN
    IF f.pc = "raised" THEN f
    ELSE IF Raises(f, table_key) THEN Abort(f)
    ELSE Emit(f, table_key,
              OrElse(Describe(f, table_key),
                     <<"Table: ">> \o table_name
                        \o <<" in database ">> \o db_name),
              FALSE)

\* "Add Table if not seen"
AddTable(f, db_name, table_name) ==
    LET table_key == TableChunkKey(db_name, table_name) IN
    IF f.pc = "raised" \/ table_key \in f.seen_tables THEN f
    ELSE IF Raises(f, table_key) THEN Abort(f)
    ELSE [Emit(f, table_key,
               OrElse(Describe(f, table_key),
                      <<"Table: ">> \o table_name
                         \o <<" in database ">> \o db_name),
               FALSE)
            EXCEPT !.seen_tables = @ \cup {table_key}]

\* "Add Column" / "Add Table": the chunk of the matched entity
AddOwn(f, entity_name, content) ==
    IF f.pc = "raised" THEN f ELSE Emit(f, entity_name, content, TRUE)

\* one iteration of `for result in results`
FormatResult(f) ==
    LET entity_name == f.results[f.i]
        content == Describe(f, entity_name)
        entity_type == TypeAndName(entity_name)[1]
        parts == Split(TypeAndName(entity_name)[2], ".")
        g == IF entity_type = <<"Column">>
             THEN IF Len(parts) >= 3
                  THEN AddOwn(AddTable(AddDatabase(f, parts[1]),
                                       parts[1], parts[2]),
                              entity_name, OrElse(content, entity_name))
                  ELSE f
             ELSE IF entity_type = <<"Table">>
             THEN IF Len(parts) >= 2
                  THEN AddOwn(AddDatabase(f, parts[1]),
                              entity_name, OrElse(content, entity_name))
                  ELSE f
             ELSE IF content = << >>
             THEN AddOwn(f, entity_name,
                         OrElse(Describe(f, entity_name), entity_name))
             ELSE AddOwn(f, entity_name, content)
    IN  IF Raises(f, entity_name) THEN Abort(f)
        ELSE IF g.pc = "raised" THEN g
        ELSE [g EXCEPT !.i = @ + 1]

\* the loop body on the next hit
FormatNext ==
    /\ fmt.pc = "loop"
    /\ fmt.i <= Len(fmt.results)
    /\ fmt' = FormatResult(fmt)
    /\ UNCHANGED <<entities, relations, sources, failures, builders, probe,
                   parser, query>>

\* return {"total_chunks": len(chunks), "chunks": chunks}
FormatReturn ==
    /\ fmt.pc = "loop"
    /\ fmt.i > Len(fmt.results)
    /\ fmt' = [fmt EXCEPT !.pc = "returned",
                          !.out = [total_chunks |-> Len(fmt.chunks),
                                   chunks |-> fmt.chunks]]
    /\ UNCHANGED <<entities, relations, sources, failures, builders, probe,
                   parser, query>>

FormatAgain_KeepSeen ==
    /\ fmt.pc = "returned"
    /\ fmt.call = 1
    /\ fmt' = [StartFormat(fmt.results, fmt.describe, fmt.call + 1,
                           <<fmt.out>>)
                 EXCEPT !.seen_databases = fmt.seen_databases,
                        !.seen_tables = fmt.seen_tables]
    /\ UNCHANGED <<entities, relations, sources, failures, builders, probe,
                   parser, query>>

\* the function is called a second time with the same results and lookup
FormatAgain ==
    /\ fmt.pc = "returned"
    /\ fmt.call = 1
    /\ fmt' = StartFormat(fmt.results, fmt.describe, fmt.call + 1,
                          <<fmt.out>>)
    /\ UNCHANGED <<entities, relations, sources, failures, builders, probe,
                   parser, query>>

InitFormat ==
    /\ entities = {}
    /\ relations = {}
    /\ sources = [mysql_db    |-> [exists |-> FALSE, tables |-> NoTables],
                  postgres_db |-> [exists |-> FALSE, tables |-> NoTables]]
    /\ failures = 0
    /\ builders = << >>
    /\ probe = NoProbe
    /\ parser = [pc |-> "idle"]
    /\ query = [pc |-> "idle"]
    /\ \E results \in ResultLists, describe \in Lookups :
           fmt = StartFormat(results, describe, 1, << >>)

NextFormat == FormatNext \/ FormatReturn \/ FormatAgain

SpecFormat == InitFormat /\ [][NextFormat]_vars

\* -------------------------------------------------------------------------
\* The inline hierarchy of RAGService.query (services/rag_service.py),
\* which the query_chunks tool returns
\* -------------------------------------------------------------------------

\* chunks = {}; chunk_idx = 1, after entity_vdb.query answered results
StartQuery(results, describe) ==
    [pc |-> "loop", results |-> results, describe |-> describe, i |-> 1,
     chunks |-> << >>, chunk_idx |-> 1,
     out |-> [success |-> FALSE, total_chunks |-> 0, chunks |-> << >>]]

\* one iteration of `for result in results`: the hit carries no content of
\* its own, the graph lookup is made for a non-empty entity_name, and its
\* exception is caught
QueryResult(q) ==
    LET entity_name == q.results[q.i]
        content == IF entity_name = << >> \/ Raises(q, entity_name)
                   THEN << >> ELSE Describe(q, entity_name)
        entity_type == TypeAndName(entity_name)[1]
        parts == Split(TypeAndName(entity_name)[2], ".")
        db == Emit(q, DbChunkKey(parts[1]), <<"Database: ">> \o parts[1],
                   FALSE)
        g == IF entity_type = <<"Column">>
             THEN IF Len(parts) >= 3
                  THEN Emit(Emit(db, TableChunkKey(parts[1], parts[2]),
                                 <<"Table: ">> \o parts[2]
                                    \o <<" in database ">> \o parts[1],
                                 FALSE),
                            entity_name, content, TRUE)
                  ELSE q
             ELSE IF entity_type = <<"Table">>
             THEN Emit(IF Len(parts) >= 2 THEN db ELSE q,
                       entity_name, content, TRUE)
             ELSE Emit(q, entity_name, content, TRUE)
    IN  [g EXCEPT !.i = @ + 1]

\* the loop body on the next hit
QueryNext ==
    /\ query.pc = "loop"
    /\ query.i <= Len(query.results)
    /\ query' = QueryResult(query)
    /\ UNCHANGED <<entities, relations, sources, failures, builders, probe,
                   fmt, parser>>

\* return {"success": True, ..., "total_chunks": len(chunks), "chunks": chunks}
QueryReturn ==
    /\ query.pc = "loop"
    /\ query.i > Len(query.results)
    /\ query' = [query EXCEPT !.pc = "returned",
                              !.out = [success |-> TRUE,
                                       total_chunks |-> Len(query.chunks),
                                       chunks |-> query.chunks]]
    /\ UNCHANGED <<entities, relations, sources, failures, builders, probe,
                   fmt, parser>>

\* Both hierarchies on the same hits: format_chunks_hierarchical and
\* RAGService.query are handed one result list, and one lookup that
\* describes every key, no key, or raises
InitHierarchy ==
    /\ entities = {}
    /\ relations = {}
    /\ sources = [mysql_db    |-> [exists |-> FALSE, tables |-> NoTables],
                  postgres_db |-> [exists |-> FALSE, tables |-> NoTables]]
    /\ failures = 0
    /\ builders = << >>
    /\ probe = NoProbe
    /\ parser = [pc |-> "idle"]
    /\ \E results \in ResultLists, answer \in {"text", "empty", "raise"} :
           LET describe == [c \in {"Database", "Table", "other"} |-> answer]
           IN  /\ fmt = StartFormat(results, describe, 1, << >>)
               /\ query = StartQuery(results, describe)

NextHierarchy == FormatNext \/ FormatReturn \/ QueryNext \/ QueryReturn

SpecHierarchy == InitHierarchy /\ [][NextHierarchy]_vars

\* -------------------------------------------------------------------------
\* The DDL parsers (utils/sql_parser.py)
\*
\* A text is the sequence of its characters.  The regular expressions of
\* the parsers are sequences of atoms; every one of them is matched from
\* left to right without a choice to revisit, which is how re matches them
\* on the texts below.
\* -------------------------------------------------------------------------

\* str.upper()
Upper(s) ==
    [i \in 1..Len(s) |->
        IF \E n \in 1..Len(LowerChars) : LowerChars[n] = s[i]
        THEN UpperChars[CHOOSE n \in 1..Len(LowerChars) : LowerChars[n] = s[i]]
        ELSE s[i]]

\* \d, \w and \s
Digits == {"0", "1", "2", "3", "4", "5", "6", "7", "8", "9"}

WordChars == Range(UpperChars) \cup Range(LowerChars) \cup Digits \cup {"_"}

Whitespace == {" ", "\n", "\t"}

\* the position after the longest run of characters of class from position i
SpanEnd(s, i, class) ==
    CHOOSE j \in i..(Len(s) + 1) :
        /\ \A k \in i..(j - 1) : s[k] \in class
        /\ j = Len(s) + 1 \/ s[j] \notin class

\* the position of the first character of stops from position i on
StopAt(s, i, stops) ==
    CHOOSE j \in i..(Len(s) + 1) :
        /\ \A k \in i..(j - 1) : s[k] \notin stops
        /\ j = Len(s) + 1 \/ s[j] \in stops

\* str.lstrip, str.rstrip and str.strip with the characters of class
LStrip(s, class) == SubSeq(s, SpanEnd(s, 1, class), Len(s))

RStrip(s, class) ==
    SubSeq(s, 1, CHOOSE j \in 0..Len(s) :
                     /\ \A k \in (j + 1)..Len(s) : s[k] \in class
                     /\ j = 0 \/ s[j] \notin class)

Strip(s, class) == LStrip(RStrip(s, class), class)

\* s.startswith(prefix)
StartsWith(s, prefix) ==
    Len(prefix) <= Len(s) /\ SubSeq(s, 1, Len(prefix)) = prefix

NoMatch == [ok |-> FALSE, start |-> 0, end |-> 0, groups |-> << >>]

RECURSIVE Match(_, _, _), MatchFrom(_, _, _, _, _)
\* the atoms of p matched one after the other from position i of s, the
\* match having begun at start with the groups captured so far.  Atoms:
\* lit (one of several literals, letter case ignored), ws1 \s+, ws0 \s*,
\* word (\w+), type (\w+(?:\([\d,]+\))?), upto1 ([^x]+), upto0 ([^x]*) or
\* (.*?) before x, suffix \w+lit, opt (?:...)?
MatchFrom(p, s, start, i, groups) ==
    IF Len(p) = 0
    THEN [ok |-> TRUE, start |-> start, end |-> i, groups |-> groups]
    ELSE
    LET a == Head(p)
        to == IF a.k = "ws1" \/ a.k = "ws0" THEN SpanEnd(s, i, Whitespace)
              ELSE IF a.k \in {"word", "type", "suffix"}
              THEN SpanEnd(s, i, WordChars)
              ELSE IF a.k = "upto1" \/ a.k = "upto0" THEN StopAt(s, i, a.v)
              ELSE i
        args == IF to <= Len(s) /\ s[to] = "("
                THEN SpanEnd(s, to + 1, Digits \cup {","}) ELSE to
        first ==
            IF a.k = "lit"
            THEN LET fit == {n \in 1..Len(a.v) :
                               /\ i + Len(a.v[n]) - 1 <= Len(s)
                               /\ Upper(<<s[i]>>) = Upper(<<a.v[n][1]>>)
                               /\ Upper(SubSeq(s, i, i + Len(a.v[n]) - 1))
                                     = Upper(a.v[n])}
                 IN  IF fit = {} THEN NoMatch
                     ELSE LET n == CHOOSE n \in fit : \A m \in fit : n <= m
                          IN  [ok |-> TRUE, start |-> i,
                               end |-> i + Len(a.v[n]), groups |-> << >>]
            ELSE IF a.k = "opt"
            THEN LET r == Match(a.v, s, i)
                 IN  IF r.ok THEN r
                     ELSE [ok |-> TRUE, start |-> i, end |-> i,
                           groups |-> << >>]
            ELSE IF a.k = "ws0"
            THEN [ok |-> TRUE, start |-> i, end |-> to, groups |-> << >>]
            ELSE IF a.k = "ws1"
            THEN [ok |-> to > i, start |-> i, end |-> to, groups |-> << >>]
            ELSE IF a.k = "suffix"
            THEN [ok |-> /\ to - i > Len(a.v)
                         /\ Upper(SubSeq(s, to - Len(a.v), to - 1))
                               = Upper(a.v),
                  start |-> i, end |-> to, groups |-> << >>]
            ELSE IF a.k = "type"
            THEN LET e == IF args > to + 1 /\ args <= Len(s) /\ s[args] = ")"
                          THEN args + 1 ELSE to
                 IN  [ok |-> to > i, start |-> i, end |-> e,
                      groups |-> <<SubSeq(s, i, e - 1)>>]
            ELSE [ok |-> to > i \/ a.k = "upto0", start |-> i, end |-> to,
                  groups |-> <<SubSeq(s, i, to - 1)>>]
    IN  IF first.ok
        THEN MatchFrom(Tail(p), s, start, first.end, groups \o first.groups)
        ELSE NoMatch

\* re.match at position i
Match(p, s, i) == MatchFrom(p, s, i, i, << >>)

\* re.search from position i on: the leftmost match
Search(p, s, i) ==
    LET at == {j \in i..(Len(s) + 1) : Match(p, s, j).ok} IN
    IF at = {} THEN NoMatch
    ELSE Match(p, s, CHOOSE j \in at : \A k \in at : j <= k)

\* -------------------------------------------------------------------------
\* MySQLSchemaParser._parse_mysql_table_definition
\* -------------------------------------------------------------------------

\* PRIMARY KEY\s*\((.*?)\)  (line 111; line 267 in the PostgreSQL body)
mysql_pk ==
    << [k |-> "lit", v |-> <<<<"P","R","I","M","A","R","Y"," ","K","E","Y">>>>],
       [k |-> "ws0", v |-> << >>],
       [k |-> "lit", v |-> <<<<"(">>>>],
       [k |-> "upto0", v |-> {")", "\n"}],
       [k |-> "lit", v |-> <<<<")">>>>] >>

\* FOREIGN KEY\s*\(`?(\w+)`?\)\s*REFERENCES\s*`?(\w+)`?\s*\(`?(\w+)`?\)
\* (the optional ON DELETE / ON UPDATE tail is left out)
mysql_fk ==
    << [k |-> "lit", v |-> <<<<"F","O","R","E","I","G","N"," ","K","E","Y">>>>],
       [k |-> "ws0", v |-> << >>],
       [k |-> "lit", v |-> <<<<"(">>>>],
       [k |-> "opt", v |-> << [k |-> "lit", v |-> <<<<"backtick">>>>] >>],
       [k |-> "word", v |-> << >>],
       [k |-> "opt", v |-> << [k |-> "lit", v |-> <<<<"backtick">>>>] >>],
       [k |-> "lit", v |-> <<<<")">>>>],
       [k |-> "ws0", v |-> << >>],
       [k |-> "lit", v |-> <<<<"R","E","F","E","R","E","N","C","E","S">>>>],
       [k |-> "ws0", v |-> << >>],
       [k |-> "opt", v |-> << [k |-> "lit", v |-> <<<<"backtick">>>>] >>],
       [k |-> "word", v |-> << >>],
       [k |-> "opt", v |-> << [k |-> "lit", v |-> <<<<"backtick">>>>] >>],
       [k |-> "ws0", v |-> << >>],
       [k |-> "lit", v |-> <<<<"(">>>>],
       [k |-> "opt", v |-> << [k |-> "lit", v |-> <<<<"backtick">>>>] >>],
       [k |-> "word", v |-> << >>],
       [k |-> "opt", v |-> << [k |-> "lit", v |-> <<<<"backtick">>>>] >>],
       [k |-> "lit", v |-> <<<<")">>>>] >>

\* (?:KEY|INDEX)\s+`?(\w+)`?\s*\((.*?)\)
mysql_idx ==
    << [k |-> "lit", v |-> <<<<"K","E","Y">>, <<"I","N","D","E","X">>>>],
       [k |-> "ws1", v |-> << >>],
       [k |-> "opt", v |-> << [k |-> "lit", v |-> <<<<"backtick">>>>] >>],
       [k |-> "word", v |-> << >>],
       [k |-> "opt", v |-> << [k |-> "lit", v |-> <<<<"backtick">>>>] >>],
       [k |-> "ws0", v |-> << >>],
       [k |-> "lit", v |-> <<<<"(">>>>],
       [k |-> "upto0", v |-> {")", "\n"}],
       [k |-> "lit", v |-> <<<<")">>>>] >>

mysql_col_AnyType ==
    << [k |-> "opt", v |-> << [k |-> "lit", v |-> <<<<"backtick">>>>] >>],
       [k |-> "word", v |-> << >>],
       [k |-> "opt", v |-> << [k |-> "lit", v |-> <<<<"backtick">>>>] >>],
       [k |-> "ws1", v |-> << >>],
       [k |-> "upto1", v |-> {" ", "\n"}],
       [k |-> "ws0", v |-> << >>],
       [k |-> "upto0", v |-> {"\n"}] >>

\* `?(\w+)`?\s+(\w+(?:\([\d,]+\))?)\s*(.*)
mysql_col ==
    << [k |-> "opt", v |-> << [k |-> "lit", v |-> <<<<"backtick">>>>] >>],
       [k |-> "word", v |-> << >>],
       [k |-> "opt", v |-> << [k |-> "lit", v |-> <<<<"backtick">>>>] >>],
       [k |-> "ws1", v |-> << >>],
       [k |-> "type", v |-> << >>],
       [k |-> "ws0", v |-> << >>],
       [k |-> "upto0", v |-> {"\n"}] >>

\* Table(name=...) with the fields the parsers fill
NewTable(name) ==
    [name |-> name, columns |-> << >>, primary_keys |-> << >>,
     foreign_keys |-> << >>, indexes |-> << >>]

AddColumn_NoPrimaryKey(table, column) ==
    [table EXCEPT !.columns = Append(@, column)]

\* Table.add_column
AddColumn(table, column) ==
    [table EXCEPT !.columns = Append(@, column),
                  !.primary_keys = IF column.is_primary_key
                                   THEN Append(@, column.name) ELSE @]

\* [col.strip(chars) for col in text.split(',')]
NameList(text, chars) ==
    LET cols == Split(text, ",") IN
    [n \in 1..Len(cols) |-> Strip(cols[n], chars)]

\* primary_keys.extend(pk_cols), and the columns of pk_cols marked
ExtendPrimaryKeys(table, pk_cols) ==
    [table EXCEPT !.primary_keys = @ \o pk_cols,
                  !.columns = [n \in 1..Len(@) |->
                                 IF @[n].name \in Range(pk_cols)
                                 THEN [@[n] EXCEPT !.is_primary_key = TRUE]
                                 ELSE @[n]]]

\* Table.add_foreign_key, then get_column(fk.column) marked as foreign key
AddForeignKey(table, fk) ==
    LET at == {n \in 1..Len(table.columns) :
                  table.columns[n].name = fk.column} IN
    [table EXCEPT !.foreign_keys = Append(@, fk),
                  !.columns = [n \in 1..Len(@) |->
                                 IF n \in at /\ \A m \in at : n <= m
                                 THEN [@[n] EXCEPT !.is_foreign_key = TRUE]
                                 ELSE @[n]]]

\* what a match, or none, of the PRIMARY KEY pattern does to the table
\* (lines 111-118)
MySQLPrimaryKeyClause(table, pk_match) ==
    IF pk_match.ok
    THEN ExtendPrimaryKeys(table, NameList(pk_match.groups[1],
                                           {"backtick", " "}))
    ELSE table

\* what a match, or none, of the FOREIGN KEY pattern does to the table
\* (lines 124-140)
MySQLForeignKeyClause(table, fk_match) ==
    IF fk_match.ok
    THEN AddForeignKey(table, [column |-> fk_match.groups[1],
                               ref_table |-> fk_match.groups[2],
                               ref_column |-> fk_match.groups[3],
                               constraint_name |-> << >>])
    ELSE table

\* what a match, or none, of the index pattern does to the table
\* (lines 145-152)
MySQLIndexClause(table, idx_match, is_unique) ==
    IF idx_match.ok
    THEN [table EXCEPT !.indexes =
            Append(@, [name |-> idx_match.groups[1],
                       columns |-> NameList(idx_match.groups[2],
                                            {"backtick", " "}),
                       is_unique |-> is_unique])]
    ELSE table

\* Column(...) of a match of the column pattern (lines 162-182); i is the
\* index of the line, kept in the column as a history field
MySQLColumn(col_match, attributes, i) ==
    [name |-> col_match.groups[1],
     data_type |-> col_match.groups[2],
     nullable |-> ~Contains(<<"N","O","T"," ","N","U","L","L">>, attributes),
     is_primary_key |->
         Contains(<<"P","R","I","M","A","R","Y"," ","K","E","Y">>, attributes),
     is_foreign_key |-> FALSE,
     auto_increment |->
         Contains(<<"A","U","T","O","_","I","N","C","R","E","M","E","N","T">>,
                  attributes),
     line |-> i]

\* what a match, or none, of the column pattern does to the table
MySQLColumnLine(table, col_match, i) ==
    IF col_match.ok
    THEN AddColumn(table,
                   MySQLColumn(col_match, Upper(col_match.groups[3]), i))
    ELSE table

\* the loop body of _parse_mysql_table_definition on a stripped line
ParseMySQLStripped(table, line, i) ==
    IF line = << >> \/ StartsWith(line, <<"-", "-">>) THEN table
    ELSE IF StartsWith(Upper(line), <<"P","R","I","M","A","R","Y"," ","K","E","Y">>)
    THEN MySQLPrimaryKeyClause(table, Search(mysql_pk, line, 1))
    ELSE IF \/ StartsWith(Upper(line), <<"C","O","N","S","T","R","A","I","N","T">>)
            \/ StartsWith(Upper(line), <<"F","O","R","E","I","G","N"," ","K","E","Y">>)
    THEN MySQLForeignKeyClause(table, Search(mysql_fk, line, 1))
    ELSE IF \/ StartsWith(Upper(line), <<"K","E","Y">>)
            \/ StartsWith(Upper(line), <<"I","N","D","E","X">>)
            \/ StartsWith(Upper(line), <<"U","N","I","Q","U","E">>)
    THEN MySQLIndexClause(table, Search(mysql_idx, line, 1),
                          StartsWith(Upper(line), <<"U","N","I","Q","U","E">>))
    ELSE MySQLColumnLine(table, Match(mysql_col, line, 1), i)

\* the loop body on the text between two newlines of table_def
ParseMySQLLine(table, text, i) ==
    ParseMySQLStripped(table, RStrip(Strip(text, Whitespace), {","}), i)

\* lines of CREATE TABLE bodies
MySQLLines ==
    <<
      \*   `id` int NOT NULL AUTO_INCREMENT,
      <<" "," ","backtick","i","d","backtick"," ","i","n","t"," ","N","O",
        "T"," ","N","U","L","L"," ","A","U","T","O","_","I","N","C","R","E",
        "M","E","N","T",",">>,
      \*   `email` varchar(255) DEFAULT NULL,
      <<" "," ","backtick","e","m","a","i","l","backtick"," ","v","a","r",
        "c","h","a","r","(","2","5","5",")"," ","D","E","F","A","U","L","T",
        " ","N","U","L","L",",">>,
      \*   key_id INT NOT NULL,
      <<" "," ","k","e","y","_","i","d"," ","I","N","T"," ","N","O","T"," ",
        "N","U","L","L",",">>,
      \* id INT PRIMARY KEY AUTO_INCREMENT,
      <<"i","d"," ","I","N","T"," ","P","R","I","M","A","R","Y"," ","K","E",
        "Y"," ","A","U","T","O","_","I","N","C","R","E","M","E","N","T",
        ",">>,
      \* email VARCHAR(255) NOT NULL
      <<"e","m","a","i","l"," ","V","A","R","C","H","A","R","(","2","5","5",
        ")"," ","N","O","T"," ","N","U","L","L">>,
      \* id INT PRIMARY KEY AUTO_INCREMENT, email VARCHAR(255) NOT NULL
      <<"i","d"," ","I","N","T"," ","P","R","I","M","A","R","Y"," ","K","E",
        "Y"," ","A","U","T","O","_","I","N","C","R","E","M","E","N","T",",",
        " ","e","m","a","i","l"," ","V","A","R","C","H","A","R","(","2","5",
        "5",")"," ","N","O","T"," ","N","U","L","L">>,
      \*   PRIMARY KEY (`id`)
      <<" "," ","P","R","I","M","A","R","Y"," ","K","E","Y"," ","(",
        "backtick","i","d","backtick",")">>,
      \*   PRIMARY KEY (`id`,`email`)
      <<" "," ","P","R","I","M","A","R","Y"," ","K","E","Y"," ","(",
        "backtick","i","d","backtick",",","backtick","e","m","a","i","l",
        "backtick",")">>,
      \*   KEY `idx_email` (`email`),
      <<" "," ","K","E","Y"," ","backtick","i","d","x","_","e","m","a","i",
        "l","backtick"," ","(","backtick","e","m","a","i","l","backtick",
        ")",",">>,
      \*   CONSTRAINT `fk_e` FOREIGN KEY (`email`) REFERENCES `users` (`email`)
      <<" "," ","C","O","N","S","T","R","A","I","N","T"," ","backtick","f",
        "k","_","e","backtick"," ","F","O","R","E","I","G","N"," ","K","E",
        "Y"," ","(","backtick","e","m","a","i","l","backtick",")"," ","R",
        "E","F","E","R","E","N","C","E","S"," ","backtick","u","s","e","r",
        "s","backtick"," ","(","backtick","e","m","a","i","l","backtick",
        ")">>,
      \*   CHECK (`id` > 0),
      <<" "," ","C","H","E","C","K"," ","(","backtick","i","d","backtick",
        " ",">"," ","0",")",",">>
    >>

\* number of lines of a body
MaxLines == 3

RECURSIVE JoinLines(_, _)
\* a table_def: each line of pool named by src, after a newline, and a
\* newline before the closing parenthesis
JoinLines(pool, src) ==
    IF Len(src) = 0 THEN <<"\n">>
    ELSE <<"\n">> \o pool[Head(src)] \o JoinLines(pool, Tail(src))

\* _parse_mysql_table_definition(table, table_def), src being the history
\* of how table_def was put together
StartMySQL(src) ==
    [pc |-> "lines", src |-> src, i |-> 1,
     table_def |-> JoinLines(MySQLLines, src),
     lines |-> Split(JoinLines(MySQLLines, src), "\n"),
     table |-> NewTable(<<"t">>)]

\* one iteration of `for line in lines`
MySQLLine ==
    /\ parser.pc = "lines"
    /\ parser.i <= Len(parser.lines)
    /\ parser' = [parser EXCEPT
                    !.table = ParseMySQLLine(@, parser.lines[parser.i],
                                             parser.i),
                    !.i = @ + 1]
    /\ UNCHANGED <<entities, relations, sources, failures, builders, probe,
                   fmt, query>>

\* the loop is over and the method returns
MySQLReturn ==
    /\ parser.pc = "lines"
    /\ parser.i > Len(parser.lines)
    /\ parser' = [parser EXCEPT !.pc = "done"]
    /\ UNCHANGED <<entities, relations, sources, failures, builders, probe,
                   fmt, query>>

InitMySQL ==
    /\ entities = {}
    /\ relations = {}
    /\ sources = [mysql_db    |-> [exists |-> FALSE, tables |-> NoTables],
                  postgres_db |-> [exists |-> FALSE, tables |-> NoTables]]
    /\ failures = 0
    /\ builders = << >>
    /\ probe = NoProbe
    /\ fmt = NoFormat
    /\ query = [pc |-> "idle"]
    /\ \E n \in 0..MaxLines :
           \E src \in [1..n -> 1..Len(MySQLLines)] :
               parser = StartMySQL(src)

NextMySQL == MySQLLine \/ MySQLReturn

SpecMySQL == InitMySQL /\ [][NextMySQL]_vars

\* -------------------------------------------------------------------------
\* PostgreSQLSchemaParser.parse
\* -------------------------------------------------------------------------

\* CREATE TABLE\s+(?:IF NOT EXISTS\s+)?(?:public\.)?(\w+)\s*\(
create_table_pattern ==
    << [k |-> "lit", v |-> <<<<"C","R","E","A","T","E"," ","T","A","B","L","E">>>>],
       [k |-> "ws1", v |-> << >>],
       [k |-> "opt", v |-> << [k |-> "lit", v |-> <<<<"I","F"," ","N","O","T"," ","E","X","I","S","T",
                        "S">>>>],
              [k |-> "ws1", v |-> << >>] >>],
       [k |-> "opt", v |-> << [k |-> "lit", v |-> <<<<"p","u","b","l","i","c",".">>>>] >>],
       [k |-> "word", v |-> << >>],
       [k |-> "ws0", v |-> << >>],
       [k |-> "lit", v |-> <<<<"(">>>>] >>

\* FOREIGN KEY\s*\(([^)]+)\)\s*REFERENCES\s+(\w+)\s*\(([^)]+)\)
pg_fk ==
    << [k |-> "lit", v |-> <<<<"F","O","R","E","I","G","N"," ","K","E","Y">>>>],
       [k |-> "ws0", v |-> << >>],
       [k |-> "lit", v |-> <<<<"(">>>>],
       [k |-> "upto1", v |-> {")"}],
       [k |-> "lit", v |-> <<<<")">>>>],
       [k |-> "ws0", v |-> << >>],
       [k |-> "lit", v |-> <<<<"R","E","F","E","R","E","N","C","E","S">>>>],
       [k |-> "ws1", v |-> << >>],
       [k |-> "word", v |-> << >>],
       [k |-> "ws0", v |-> << >>],
       [k |-> "lit", v |-> <<<<"(">>>>],
       [k |-> "upto1", v |-> {")"}],
       [k |-> "lit", v |-> <<<<")">>>>] >>

\* (\w+)\s+(\w+(?:\([\d,]+\))?|character varying...|timestamp...)\s*(.*)
\* (the first alternative of the type matches wherever the others do, and
\* what follows it always matches, so that the others are never taken)
pg_col ==
    << [k |-> "word", v |-> << >>],
       [k |-> "ws1", v |-> << >>],
       [k |-> "type", v |-> << >>],
       [k |-> "ws0", v |-> << >>],
       [k |-> "upto0", v |-> {"\n"}] >>

\* ALTER TABLE\s+(?:ONLY\s+)?(?:public\.)?(\w+)\s+ADD CONSTRAINT\s+\w+_pkey\s+
\* PRIMARY KEY\s*\(([^)]+)\)
pk_pattern ==
    << [k |-> "lit", v |-> <<<<"A","L","T","E","R"," ","T","A","B","L","E">>>>],
       [k |-> "ws1", v |-> << >>],
       [k |-> "opt", v |-> << [k |-> "lit", v |-> <<<<"O","N","L","Y">>>>],
              [k |-> "ws1", v |-> << >>] >>],
       [k |-> "opt", v |-> << [k |-> "lit", v |-> <<<<"p","u","b","l","i","c",".">>>>] >>],
       [k |-> "word", v |-> << >>],
       [k |-> "ws1", v |-> << >>],
       [k |-> "lit", v |-> <<<<"A","D","D"," ","C","O","N","S","T","R","A","I","N","T">>>>],
       [k |-> "ws1", v |-> << >>],
       [k |-> "suffix", v |-> <<"_","p","k","e","y">>],
       [k |-> "ws1", v |-> << >>],
       [k |-> "lit", v |-> <<<<"P","R","I","M","A","R","Y"," ","K","E","Y">>>>],
       [k |-> "ws0", v |-> << >>],
       [k |-> "lit", v |-> <<<<"(">>>>],
       [k |-> "upto1", v |-> {")"}],
       [k |-> "lit", v |-> <<<<")">>>>] >>

\* ALTER TABLE\s+(?:ONLY\s+)?(?:public\.)?(\w+)\s+ADD CONSTRAINT\s+(\w+)\s+
\* FOREIGN KEY\s*\(([^)]+)\)\s*REFERENCES\s+(?:public\.)?(\w+)\s*\(([^)]+)\)
fk_pattern ==
    << [k |-> "lit", v |-> <<<<"A","L","T","E","R"," ","T","A","B","L","E">>>>],
       [k |-> "ws1", v |-> << >>],
       [k |-> "opt", v |-> << [k |-> "lit", v |-> <<<<"O","N","L","Y">>>>],
              [k |-> "ws1", v |-> << >>] >>],
       [k |-> "opt", v |-> << [k |-> "lit", v |-> <<<<"p","u","b","l","i","c",".">>>>] >>],
       [k |-> "word", v |-> << >>],
       [k |-> "ws1", v |-> << >>],
       [k |-> "lit", v |-> <<<<"A","D","D"," ","C","O","N","S","T","R","A","I","N","T">>>>],
       [k |-> "ws1", v |-> << >>],
       [k |-> "word", v |-> << >>],
       [k |-> "ws1", v |-> << >>],
       [k |-> "lit", v |-> <<<<"F","O","R","E","I","G","N"," ","K","E","Y">>>>],
       [k |-> "ws0", v |-> << >>],
       [k |-> "lit", v |-> <<<<"(">>>>],
       [k |-> "upto1", v |-> {")"}],
       [k |-> "lit", v |-> <<<<")">>>>],
       [k |-> "ws0", v |-> << >>],
       [k |-> "lit", v |-> <<<<"R","E","F","E","R","E","N","C","E","S">>>>],
       [k |-> "ws1", v |-> << >>],
       [k |-> "opt", v |-> << [k |-> "lit", v |-> <<<<"p","u","b","l","i","c",".">>>>] >>],
       [k |-> "word", v |-> << >>],
       [k |-> "ws0", v |-> << >>],
       [k |-> "lit", v |-> <<<<"(">>>>],
       [k |-> "upto1", v |-> {")"}],
       [k |-> "lit", v |-> <<<<")">>>>] >>

\* Column(...) of a match of the column pattern (lines 304-322)
PgColumn(col_match, attributes, i) ==
    [name |-> col_match.groups[1],
     data_type |-> col_match.groups[2],
     nullable |-> ~Contains(<<"N","O","T"," ","N","U","L","L">>, attributes),
     is_primary_key |-> Contains(<<"P","R","I","M","A","R","Y"," ","K","E","Y">>, attributes),
     is_foreign_key |-> FALSE,
     auto_increment |->
         \/ Contains(<<"S","E","R","I","A","L">>, Upper(col_match.groups[2]))
         \/ Contains(<<"n","e","x","t","v","a","l">>, Lower(attributes)),
     line |-> i]

\* ForeignKey(...) of a match of the FOREIGN KEY pattern (lines 285-289)
PgBodyForeignKey(fk_match) ==
    [column |-> Strip(fk_match.groups[1], {"\"", " "}),
     ref_table |-> fk_match.groups[2],
     ref_column |-> Strip(fk_match.groups[3], {"\"", " "}),
     constraint_name |-> << >>]

\* line.strip().split()[0].isalnum()
FirstWordIsAlnum(line) ==
    /\ StopAt(line, 1, Whitespace) > 1
    /\ \A k \in 1..(StopAt(line, 1, Whitespace) - 1) :
           line[k] \in WordChars \ {"_"}

\* what a match, or none, of the PRIMARY KEY pattern does to the table
PgPrimaryKeyClause(table, pk_match) ==
    IF pk_match.ok
    THEN ExtendPrimaryKeys(table, NameList(pk_match.groups[1], {"\"", " "}))
    ELSE table

\* what a match, or none, of the FOREIGN KEY pattern does to the table
PgForeignKeyClause(table, fk_match) ==
    IF fk_match.ok THEN AddForeignKey(table, PgBodyForeignKey(fk_match))
    ELSE table

\* what a match, or none, of the column pattern does to the table
PgColumnLine(table, col_match, i) ==
    IF col_match.ok
    THEN AddColumn(table, PgColumn(col_match, Upper(col_match.groups[3]), i))
    ELSE table

\* the loop body of _parse_postgresql_table_definition on a stripped line
ParsePostgreSQLStripped(table, line, i) ==
    IF line = << >> \/ StartsWith(line, <<"-", "-">>) THEN table
    ELSE IF /\ Contains(<<"P","R","I","M","A","R","Y"," ","K","E","Y">>, Upper(line))
            /\ ~FirstWordIsAlnum(line)
    THEN PgPrimaryKeyClause(table, Search(mysql_pk, line, 1))
    ELSE IF Contains(<<"F","O","R","E","I","G","N"," ","K","E","Y">>, Upper(line))
    THEN PgForeignKeyClause(table, Search(pg_fk, line, 1))
    ELSE PgColumnLine(table, Match(pg_col, line, 1), i)

\* the loop body of _parse_postgresql_table_definition on the text between
\* two newlines of table_def
ParsePostgreSQLLine(table, text, i) ==
    ParsePostgreSQLStripped(table, RStrip(Strip(text, Whitespace), {","}), i)

RECURSIVE ScanClose_FirstClose(_, _, _)
ScanClose_FirstClose(s, pos, depth) ==
    IF ~(pos <= Len(s) /\ depth > 0) THEN [pos |-> pos, depth |-> depth]
    ELSE ScanClose_FirstClose(s, pos + 1, IF s[pos] = ")" THEN 0 ELSE depth)

RECURSIVE ScanClose(_, _, _)
\* while pos < len(sql_content) and depth > 0: ...; positions count from 1
ScanClose(s, pos, depth) ==
    IF ~(pos <= Len(s) /\ depth > 0) THEN [pos |-> pos, depth |-> depth]
    ELSE ScanClose(s, pos + 1,
                   IF s[pos] = "(" THEN depth + 1
                   ELSE IF s[pos] = ")" THEN depth - 1 ELSE depth)

\* self.tables[table_name] = table, the dict kept as the sequence of its
\* values in key order
PutTable(tables, table) ==
    IF \E n \in 1..Len(tables) : tables[n].name = table.name
    THEN [n \in 1..Len(tables) |->
            IF tables[n].name = table.name THEN table ELSE tables[n]]
    ELSE Append(tables, table)

\* statements of a dump, without comments
PgStatements ==
    <<
      \* CREATE TABLE users (
      \*     id integer NOT NULL,
      \*     email character varying(255)
      \* );
      <<"C","R","E","A","T","E"," ","T","A","B","L","E"," ","u","s","e","r",
        "s"," ","(","\n"," "," "," "," ","i","d"," ","i","n","t","e","g",
        "e","r"," ","N","O","T"," ","N","U","L","L",",","\n"," "," "," ",
        " ","e","m","a","i","l"," ","c","h","a","r","a","c","t","e","r"," ",
        "v","a","r","y","i","n","g","(","2","5","5",")","\n",")",";","\n">>,
      \* CREATE TABLE public.orders (
      \*     id integer NOT NULL,
      \*     user_id integer,
      \*     total numeric(10,2)
      \* );
      <<"C","R","E","A","T","E"," ","T","A","B","L","E"," ","p","u","b","l",
        "i","c",".","o","r","d","e","r","s"," ","(","\n"," "," "," "," ",
        "i","d"," ","i","n","t","e","g","e","r"," ","N","O","T"," ","N","U",
        "L","L",",","\n"," "," "," "," ","u","s","e","r","_","i","d"," ",
        "i","n","t","e","g","e","r",",","\n"," "," "," "," ","t","o","t",
        "a","l"," ","n","u","m","e","r","i","c","(","1","0",",","2",")",
        "\n",")",";","\n">>,
      \* ALTER TABLE ONLY public.orders
      \*     ADD CONSTRAINT orders_user_fk FOREIGN KEY (user_id) REFERENCES public.users(id);
      <<"A","L","T","E","R"," ","T","A","B","L","E"," ","O","N","L","Y"," ",
        "p","u","b","l","i","c",".","o","r","d","e","r","s","\n"," "," ",
        " "," ","A","D","D"," ","C","O","N","S","T","R","A","I","N","T"," ",
        "o","r","d","e","r","s","_","u","s","e","r","_","f","k"," ","F","O",
        "R","E","I","G","N"," ","K","E","Y"," ","(","u","s","e","r","_","i",
        "d",")"," ","R","E","F","E","R","E","N","C","E","S"," ","p","u","b",
        "l","i","c",".","u","s","e","r","s","(","i","d",")",";","\n">>,
      \* ALTER TABLE ONLY public.users
      \*     ADD CONSTRAINT users_pkey PRIMARY KEY (id);
      <<"A","L","T","E","R"," ","T","A","B","L","E"," ","O","N","L","Y"," ",
        "p","u","b","l","i","c",".","u","s","e","r","s","\n"," "," "," ",
        " ","A","D","D"," ","C","O","N","S","T","R","A","I","N","T"," ","u",
        "s","e","r","s","_","p","k","e","y"," ","P","R","I","M","A","R","Y",
        " ","K","E","Y"," ","(","i","d",")",";","\n">>,
      \* CREATE TABLE logs (
      \*     id integer
      \* ) INHERITS (base);
      <<"C","R","E","A","T","E"," ","T","A","B","L","E"," ","l","o","g","s",
        " ","(","\n"," "," "," "," ","i","d"," ","i","n","t","e","g","e",
        "r","\n",")"," ","I","N","H","E","R","I","T","S"," ","(","b","a",
        "s","e",")",";","\n">>,
      \* CREATE TABLE broken (
      \*     id integer
      <<"C","R","E","A","T","E"," ","T","A","B","L","E"," ","b","r","o","k",
        "e","n"," ","(","\n"," "," "," "," ","i","d"," ","i","n","t","e",
        "g","e","r","\n">>,
      \* );
      <<")",";","\n">>,
      \* ALTER TABLE orders ADD CONSTRAINT orders_ref_fk FOREIGN KEY (ref) REFERENCES users(id);
      <<"A","L","T","E","R"," ","T","A","B","L","E"," ","o","r","d","e","r",
        "s"," ","A","D","D"," ","C","O","N","S","T","R","A","I","N","T"," ",
        "o","r","d","e","r","s","_","r","e","f","_","f","k"," ","F","O","R",
        "E","I","G","N"," ","K","E","Y"," ","(","r","e","f",")"," ","R","E",
        "F","E","R","E","N","C","E","S"," ","u","s","e","r","s","(","i","d",
        ")",";","\n">>,
      \* CREATE TABLE notes (
      \*     id integer
      \* )
      \* ;
      <<"C","R","E","A","T","E"," ","T","A","B","L","E"," ","n","o","t","e",
        "s"," ","(","\n"," "," "," "," ","i","d"," ","i","n","t","e","g",
        "e","r","\n",")","\n",";","\n">>,
      \* CREATE TABLE tags (
      \*     id integer NOT NULL,
      \*     PRIMARY KEY (id)
      \* );
      <<"C","R","E","A","T","E"," ","T","A","B","L","E"," ","t","a","g","s",
        " ","(","\n"," "," "," "," ","i","d"," ","i","n","t","e","g","e",
        "r"," ","N","O","T"," ","N","U","L","L",",","\n"," "," "," "," ",
        "P","R","I","M","A","R","Y"," ","K","E","Y"," ","(","i","d",")",
        "\n",")",";","\n">>,
      \* CREATE TABLE pairs (
      \*     a integer,
      \*     b integer,
      \*     CONSTRAINT pairs_pk PRIMARY KEY (a, b)
      \* );
      <<"C","R","E","A","T","E"," ","T","A","B","L","E"," ","p","a","i","r",
        "s"," ","(","\n"," "," "," "," ","a"," ","i","n","t","e","g","e",
        "r",",","\n"," "," "," "," ","b"," ","i","n","t","e","g","e","r",
        ",","\n"," "," "," "," ","C","O","N","S","T","R","A","I","N","T",
        " ","p","a","i","r","s","_","p","k"," ","P","R","I","M","A","R","Y",
        " ","K","E","Y"," ","(","a",","," ","b",")","\n",")",";","\n">>,
      \* CREATE TABLE items (
      \*     item_id integer PRIMARY KEY,
      \*     name text
      \* );
      <<"C","R","E","A","T","E"," ","T","A","B","L","E"," ","i","t","e","m",
        "s"," ","(","\n"," "," "," "," ","i","t","e","m","_","i","d"," ",
        "i","n","t","e","g","e","r"," ","P","R","I","M","A","R","Y"," ","K",
        "E","Y",",","\n"," "," "," "," ","n","a","m","e"," ","t","e","x",
        "t","\n",")",";","\n">>,
      \* ALTER TABLE ONLY public.users
      \*     ADD CONSTRAINT users_pk PRIMARY KEY (id);
      <<"A","L","T","E","R"," ","T","A","B","L","E"," ","O","N","L","Y"," ",
        "p","u","b","l","i","c",".","u","s","e","r","s","\n"," "," "," ",
        " ","A","D","D"," ","C","O","N","S","T","R","A","I","N","T"," ","u",
        "s","e","r","s","_","p","k"," ","P","R","I","M","A","R","Y"," ","K",
        "E","Y"," ","(","i","d",")",";","\n">>,
      \* CREATE TABLE misc (
      \*     id integer PRIMARY KEY,
      \*     CHECK (id > 0)
      \* );
      <<"C","R","E","A","T","E"," ","T","A","B","L","E"," ","m","i","s","c",
        " ","(","\n"," "," "," "," ","i","d"," ","i","n","t","e","g","e",
        "r"," ","P","R","I","M","A","R","Y"," ","K","E","Y",",","\n"," ",
        " "," "," ","C","H","E","C","K"," ","(","i","d"," ",">"," ","0",")",
        "\n",")",";","\n">>
    >>

\* number of statements of a dump
MaxStatements == 3

RECURSIVE Concat(_, _)
\* the statements of pool named by src, one after the other
Concat(pool, src) ==
    IF Len(src) = 0 THEN << >>
    ELSE pool[Head(src)] \o Concat(pool, Tail(src))

\* parse() after _clean_sql_comments; re.finditer looks for the next match
\* from position at when the loop asks for it; src is the history of how the
\* text was put together, and scans the history of the iterations over
\* headers
StartPostgreSQL(src) ==
    [pc |-> "create", src |-> src, at |-> 1,
     sql_content |-> Concat(PgStatements, src),
     tables |-> << >>, scans |-> << >>,
     table |-> NewTable(<< >>), lines |-> << >>, j |-> 1]

\* lines 220-227: the scan closed the parenthesis and, white space apart,
\* a semicolon comes next
Terminated(s, scan) ==
    /\ scan.depth = 0
    /\ StartsWith(LStrip(SubSeq(s, scan.pos, Len(s)), Whitespace), <<";">>)

\* the parser after lines 206-235 on a header whose scan ended as scan
AfterScan(f, match, scan, accepted) ==
    IF accepted
    THEN [f EXCEPT
            !.pc = "body",
            !.at = match.end,
            !.table = NewTable(match.groups[1]),
            !.lines = Split(SubSeq(f.sql_content, match.end, scan.pos - 2),
                            "\n"),
            !.j = 1,
            !.scans = Append(@,
                [name |-> match.groups[1], start |-> match.end,
                 accepted |-> TRUE,
                 table_def |-> SubSeq(f.sql_content, match.end,
                                      scan.pos - 2)])]
    ELSE [f EXCEPT
            !.at = match.end,
            !.scans = Append(@,
                [name |-> match.groups[1], start |-> match.end,
                 accepted |-> FALSE, table_def |-> << >>])]

\* lines 210-218 and the test of lines 220-227
AfterHeader(f, match, scan) ==
    AfterScan(f, match, scan, Terminated(f.sql_content, scan))

\* the loop of line 205 has a next match
HeaderFound(match) ==
    /\ match.ok
    /\ parser' = AfterHeader(parser, match,
                             ScanClose(parser.sql_content, match.end, 1))

\* one iteration of `for match in matches` over the CREATE TABLE headers,
\* up to the call of _parse_postgresql_table_definition
PgHeader ==
    /\ parser.pc = "create"
    /\ HeaderFound(Search(create_table_pattern, parser.sql_content,
                          parser.at))
    /\ UNCHANGED <<entities, relations, sources, failures, builders, probe,
                   fmt, query>>

\* one iteration of the loop of _parse_postgresql_table_definition
PgLine ==
    /\ parser.pc = "body"
    /\ parser.j <= Len(parser.lines)
    /\ parser' = [parser EXCEPT
          !.table = ParsePostgreSQLLine(@, parser.lines[parser.j], parser.j),
          !.j = @ + 1]
    /\ UNCHANGED <<entities, relations, sources, failures, builders, probe,
                   fmt, query>>

\* the body is parsed: self.tables[table_name] = table
PgStore ==
    /\ parser.pc = "body"
    /\ parser.j > Len(parser.lines)
    /\ parser' = [parser EXCEPT
          !.pc = "create",
          !.tables = PutTable(@, parser.table)]
    /\ UNCHANGED <<entities, relations, sources, failures, builders, probe,
                   fmt, query>>

\* the loop over the headers is over: _parse_postgresql_primary_keys starts;
\* that loop is over: _parse_postgresql_foreign_keys starts; that loop is
\* over: parse returns self.tables
PgNextPass ==
    /\ parser.pc \in {"create", "pk", "fk"}
    /\ ~Search(IF parser.pc = "create" THEN create_table_pattern
               ELSE IF parser.pc = "pk" THEN pk_pattern ELSE fk_pattern,
               parser.sql_content, parser.at).ok
    /\ parser' = [parser EXCEPT
          !.pc = IF parser.pc = "create" THEN "pk"
                 ELSE IF parser.pc = "pk" THEN "fk" ELSE "done",
          !.at = 1]
    /\ UNCHANGED <<entities, relations, sources, failures, builders, probe,
                   fmt, query>>

\* lines 332-344 on one match
PrimaryKeyFound(match) ==
    /\ match.ok
    /\ parser' = [parser EXCEPT
          !.tables = [n \in 1..Len(@) |->
                        IF @[n].name = match.groups[1]
                        THEN ExtendPrimaryKeys(@[n],
                               NameList(match.groups[2], {"\"", " "}))
                        ELSE @[n]],
          !.at = match.end]

\* one iteration of the loop of _parse_postgresql_primary_keys
PgPrimaryKey ==
    /\ parser.pc = "pk"
    /\ PrimaryKeyFound(Search(pk_pattern, parser.sql_content, parser.at))
    /\ UNCHANGED <<entities, relations, sources, failures, builders, probe,
                   fmt, query>>

ForeignKeyFound_Unmarked(match) ==
    /\ match.ok
    /\ parser' = [parser EXCEPT
          !.tables = [n \in 1..Len(@) |->
                        IF @[n].name = match.groups[1]
                        THEN [@[n] EXCEPT !.foreign_keys = Append(@,
                               [column |-> Strip(match.groups[3], {"\"", " "}),
                                ref_table |-> match.groups[4],
                                ref_column |-> Strip(match.groups[5],
                                                     {"\"", " "}),
                                constraint_name |-> match.groups[2]])]
                        ELSE @[n]],
          !.at = match.end]

\* lines 352-370 on one match
ForeignKeyFound(match) ==
    /\ match.ok
    /\ parser' = [parser EXCEPT
          !.tables = [n \in 1..Len(@) |->
                        IF @[n].name = match.groups[1]
                        THEN AddForeignKey(@[n],
                               [column |-> Strip(match.groups[3], {"\"", " "}),
                                ref_table |-> match.groups[4],
                                ref_column |-> Strip(match.groups[5],
                                                     {"\"", " "}),
                                constraint_name |-> match.groups[2]])
                        ELSE @[n]],
          !.at = match.end]

\* one iteration of the loop of _parse_postgresql_foreign_keys
PgForeignKey ==
    /\ parser.pc = "fk"
    /\ ForeignKeyFound(Search(fk_pattern, parser.sql_content, parser.at))
    /\ UNCHANGED <<entities, relations, sources, failures, builders, probe,
                   fmt, query>>

InitPostgreSQL ==
    /\ entities = {}
    /\ relations = {}
    /\ sources = [mysql_db    |-> [exists |-> FALSE, tables |-> NoTables],
                  postgres_db |-> [exists |-> FALSE, tables |-> NoTables]]
    /\ failures = 0
    /\ builders = << >>
    /\ probe = NoProbe
    /\ fmt = NoFormat
    /\ query = [pc |-> "idle"]
    \* statements 1 to 9 are the dumps of pg_dump's layout
    /\ \E n \in 0..MaxStatements :
           \E src \in [1..n -> 1..9] :
               /\ \A j, k \in 1..n : src[j] = src[k] => j = k
               /\ parser = StartPostgreSQL(src)

NextPostgreSQL ==
    PgHeader \/ PgLine \/ PgStore \/ PgPrimaryKey \/ PgForeignKey \/ PgNextPass

SpecPostgreSQL == InitPostgreSQL /\ [][NextPostgreSQL]_vars

\* -------------------------------------------------------------------------
\* Both parsers on DDL that declares keys: a MySQL body made of a column
\* line, a PRIMARY KEY clause, a KEY clause, a FOREIGN KEY clause and the
\* line that matches no pattern (lines 1, 7, 9, 10, 11 of MySQLLines), or a
\* PostgreSQL dump made of the statements that declare primary keys
\* (1, 3, 4 and 10 to 14 of PgStatements)
\* -------------------------------------------------------------------------

InitDDL ==
    /\ entities = {}
    /\ relations = {}
    /\ sources = [mysql_db    |-> [exists |-> FALSE, tables |-> NoTables],
                  postgres_db |-> [exists |-> FALSE, tables |-> NoTables]]
    /\ failures = 0
    /\ builders = << >>
    /\ probe = NoProbe
    /\ fmt = NoFormat
    /\ query = [pc |-> "idle"]
    /\ \/ \E n \in 0..MaxLines :
              \E src \in [1..n -> {1, 7, 9, 10, 11}] :
                  parser = StartMySQL(src)
       \/ \E n \in 0..MaxStatements :
              \E src \in [1..n -> {1, 3, 4} \cup (10..14)] :
                  /\ \A j, k \in 1..n : src[j] = src[k] => j = k
                  /\ parser = StartPostgreSQL(src)

NextDDL == NextMySQL \/ NextPostgreSQL

SpecDDL == InitDDL /\ [][NextDDL]_vars

\* -------------------------------------------------------------------------
\* Vocabulary of the properties
\* -------------------------------------------------------------------------

DbIndex(db_key) == CHOOSE i \in 1..Len(DbKeys) : DbKeys[i] = db_key

Processed == {d \in Range(DbKeys) : sources[d].exists}

EntityKeys == {e.name : e \in entities}

RelationKeys == {<<r.src, r.tgt, r.relation_type>> : r \in relations}

\* The keys one uninterrupted build of the sources creates
ExpectedEntityKeys ==
    {OwnerKey}
    \cup {TagKey(tag) : tag \in Range(COMMON_TAGS)}
    \cup {DatabaseKey(d) : d \in Processed}
    \cup UNION {{TableKey(d, tb.name) : tb \in Range(sources[d].tables)} :
                  d \in Processed}
    \cup UNION {UNION {{ColumnKey(d, tb.name, col.name) :
                          col \in Range(tb.columns)} :
                       tb \in Range(sources[d].tables)} : d \in Processed}

ExpectedRelationKeys ==
    UNION {UNION {
        {<<DatabaseKey(d), TableKey(d, tb.name), "HAS_TABLE">>,
         <<TableKey(d, tb.name), OwnerKey, "OWNED_BY">>}
        \cup {<<TableKey(d, tb.name), ColumnKey(d, tb.name, col.name),
                "HAS_COLUMN">> : col \in Range(tb.columns)}
        \cup UNION {{<<ColumnKey(d, tb.name, col.name), TagKey(tag),
                       "TAGGED">> : tag \in Range(DeriveTags(col))} :
                    col \in Range(tb.columns)}
        \cup {<<TableKey(d, tb.name), TableKey(d, fk.ref_table),
                "REFERENCES">> :
                fk \in {x \in Range(tb.foreign_keys) :
                           HasTable(sources[d].tables, x.ref_table)}}
        : tb \in Range(sources[d].tables)} : d \in Processed}

StoreIsExpected ==
    /\ EntityKeys = ExpectedEntityKeys
    /\ RelationKeys = ExpectedRelationKeys

\* the calls of frame b made at `site` for database d that answered `result`
CallsOf(b, site, d, results) ==
    {i \in 1..Len(b.calls) :
        /\ b.calls[i].site = site
        /\ b.calls[i].db = d
        /\ b.calls[i].result \in results}

AnyResult == {"ok", "exists", "value_error", "error"}

Entered(b, method, d) == \E i \in 1..Len(b.steps) : b.steps[i] = <<method, d>>

\* create_foreign_key_relations(d, ...) has returned in this run
ForeignKeysReturned(b, d) ==
    /\ Entered(b, "create_foreign_key_relations", d)
    /\ b.pc = "done" \/ (b.pc # "failed" /\ DbIndex(d) < b.db)

\* create_column_entities(d, ...) has returned in this run
ColumnsReturned(b, d) == Entered(b, "create_foreign_key_relations", d)

\* An uninterrupted first build leaves exactly the expected keys.
CleanBuildIsExpected ==
    \A p \in DOMAIN builders :
        LET b == builders[p] IN
        (b.run = 1 /\ b.pc = "done" /\ failures = 0) => StoreIsExpected

\* -------------------------------------------------------------------------
\* C1. Idempotence of the full build: after one uninterrupted build on an
\* empty store, a second build of the same input meets no error, every
\* create call it makes is answered "already exists", and the store stays
\* what the first build left.
\* -------------------------------------------------------------------------
C1_SecondBuildChangesNothing ==
    \A p \in DOMAIN builders :
        LET b == builders[p] IN
        (b.run = 2 /\ b.prev = "done" /\ failures = 0) =>
            /\ <<entities, relations>> = b.snapshot
            /\ \A i \in 1..Len(b.calls) : b.calls[i].result = "exists"
            /\ b.pc # "failed"

C1_Witness ==
    \E p \in DOMAIN builders :
        LET b == builders[p] IN
        /\ b.run = 2 /\ b.prev = "done" /\ failures = 0 /\ b.pc = "done"
        /\ sources.mysql_db.tables = ShopTables
        /\ sources.postgres_db.tables = LegacyTables
        /\ Len(b.calls) > 20
        /\ StoreIsExpected

\* -------------------------------------------------------------------------
\* C2. Re-running is safe: when a build was aborted by a store failure and
\* the build is run again to completion without failure, the store holds
\* exactly the keys of one uninterrupted build.
\* -------------------------------------------------------------------------
C2_RerunAfterAbortIsComplete ==
    \A p \in DOMAIN builders :
        LET b == builders[p] IN
        (b.prev = "failed" /\ b.pc = "done" /\ b.faults = 0) =>
            StoreIsExpected

\* -------------------------------------------------------------------------
\* C3. Postcondition of create_column_entities: once it has returned
\* normally, every column of every table of the map has its Column entity,
\* its HAS_COLUMN relation carrying the 1-based position, and a TAGGED
\* relation to each tag the heuristic derives for it.
\* -------------------------------------------------------------------------
C3_ColumnsCompleteOnReturn ==
    \A p \in DOMAIN builders :
        LET b == builders[p] IN
        \A d \in Range(DbKeys) :
            ColumnsReturned(b, d) =>
                \A t \in 1..Len(sources[d].tables) :
                    LET tb == sources[d].tables[t] IN
                    \A c \in 1..Len(tb.columns) :
                        LET col == tb.columns[c]
                            key == ColumnKey(d, tb.name, col.name) IN
                        /\ EntityExists(key)
                        /\ \E r \in relations :
                              /\ r.src = TableKey(d, tb.name)
                              /\ r.tgt = key
                              /\ r.relation_type = "HAS_COLUMN"
                              /\ r.ordinal = c
                        /\ \A tag \in Range(DeriveTags(col)) :
                              <<key, TagKey(tag), "TAGGED">> \in RelationKeys

\* -------------------------------------------------------------------------
\* C4. In every creation operation an "already exists" answer is treated as
\* success, and any other store failure propagates and aborts the build:
\* a failed call is the last call of its run and the run has failed.
\* -------------------------------------------------------------------------
C4_OnlyAlreadyExistsIsSwallowed ==
    \A p \in DOMAIN builders :
        LET b == builders[p] IN
        \A i \in 1..Len(b.calls) :
            /\ IsFailure(b.calls[i].result) =>
                  (b.pc = "failed" /\ i = Len(b.calls))
            /\ b.calls[i].result = "exists" =>
                  ~(b.pc = "failed" /\ i = Len(b.calls))

\* -------------------------------------------------------------------------
\* C5. After create_foreign_key_relations has completed in a build on an
\* empty store that met no store failure, every foreign key whose ref_table
\* is in the map has a REFERENCES relation from its table to the referenced
\* table carrying that key's source and target column.
\* -------------------------------------------------------------------------
C5_EveryForeignKeyHasItsRelation ==
    \A p \in DOMAIN builders :
        LET b == builders[p] IN
        \A d \in Range(DbKeys) :
            (b.run = 1 /\ failures = 0 /\ ForeignKeysReturned(b, d)) =>
                \A tb \in Range(sources[d].tables) :
                    \A fk \in Range(tb.foreign_keys) :
                        HasTable(sources[d].tables, fk.ref_table) =>
                            \E r \in relations :
                                /\ r.src = TableKey(d, tb.name)
                                /\ r.tgt = TableKey(d, fk.ref_table)
                                /\ r.relation_type = "REFERENCES"
                                /\ r.from_column = fk.column
                                /\ r.to_column = fk.ref_column

\* -------------------------------------------------------------------------
\* C6. The statistics a build returns count what that run created:
\* databases processed, and the Table entities, Column entities and
\* REFERENCES relations the run newly created in the store.
\* -------------------------------------------------------------------------
C6_StatsCountWhatTheRunCreated ==
    \A p \in DOMAIN builders :
        LET b == builders[p]
            Created(site) ==
                Cardinality(UNION {CallsOf(b, site, d, {"ok"}) :
                                      d \in Range(DbKeys)}) IN
        b.pc = "done" =>
            /\ b.stats.databases = Cardinality(Processed)
            /\ b.stats.tables = Created("table")
            /\ b.stats.columns = Created("column")
            /\ b.stats.foreign_keys = Created("references")

\* -------------------------------------------------------------------------
\* C7. Ordering of the build: create_owner_entity, then create_tags, each
\* once and before any per-database step; per processed database the steps
\* create_database_entity, create_table_entities, create_column_entities,
\* create_foreign_key_relations in this order, one database after the other
\* in configuration order; the store calls of a step all precede the store
\* calls of the next step.
\* -------------------------------------------------------------------------
MethodRank(method) ==
    CASE method = "create_owner_entity" -> 1
      [] method = "create_tags" -> 2
      [] method = "create_database_entity" -> 1
      [] method = "create_table_entities" -> 2
      [] method = "create_column_entities" -> 3
      [] method = "create_foreign_key_relations" -> 4

SiteMethod(site) ==
    CASE site = "owner" -> "create_owner_entity"
      [] site = "tag" -> "create_tags"
      [] site = "database" -> "create_database_entity"
      [] site \in {"table", "has_table", "owned_by"} -> "create_table_entities"
      [] site \in {"column", "has_column", "tagged"} -> "create_column_entities"
      [] site \in {"fk", "references"} -> "create_foreign_key_relations"

StepRank(step) ==
    <<IF step[2] = "-" THEN 0 ELSE DbIndex(step[2]), MethodRank(step[1])>>

C7_StepsInFixedOrder ==
    \A p \in DOMAIN builders :
        LET b == builders[p]
            n == Len(b.steps)
            CallStep(i) == <<SiteMethod(b.calls[i].site), b.calls[i].db>> IN
        /\ b.steps[1] = <<"create_owner_entity", "-">>
        /\ n >= 2 => b.steps[2] = <<"create_tags", "-">>
        /\ \A i \in 3..n :
              LET prev == b.steps[i - 1]
                  cur == b.steps[i] IN
              /\ cur[2] \in Range(DbKeys)
              /\ IF cur[1] = "create_database_entity"
                 THEN \/ i = 3
                      \/ /\ prev[1] = "create_foreign_key_relations"
                         /\ DbIndex(prev[2]) < DbIndex(cur[2])
                 ELSE /\ prev[2] = cur[2]
                      /\ MethodRank(cur[1]) = MethodRank(prev[1]) + 1
        /\ \A i \in 1..Len(b.calls) :
              /\ \E j \in 1..n : b.steps[j] = CallStep(i)
              /\ i > 1 => \/ StepRank(CallStep(i - 1)) = StepRank(CallStep(i))
                          \/ Less(StepRank(CallStep(i - 1)),
                                  StepRank(CallStep(i)))
        /\ Cardinality({i \in 1..Len(b.calls) : b.calls[i].site = "owner"}) <= 1
        /\ Cardinality({i \in 1..Len(b.calls) : b.calls[i].site = "tag"})
              <= Len(COMMON_TAGS)
        /\ b.pc \notin {"done", "failed", "dbloop"} =>
              b.steps[n] = <<SiteMethod(b.pc),
                             IF b.pc \in {"owner", "tag"} THEN "-"
                             ELSE DbKeyOf(b)>>
        /\ b.pc = "done" =>
              \A d \in Processed :
                 \A m \in {"create_database_entity", "create_table_entities",
                           "create_column_entities",
                           "create_foreign_key_relations"} :
                    Cardinality({i \in 1..n : b.steps[i] = <<m, d>>}) = 1

C7_Witness ==
    \E p \in DOMAIN builders :
        LET b == builders[p] IN
        /\ b.pc = "done"
        /\ Processed = Range(DbKeys)
        /\ sources.mysql_db.tables = ShopTables
        /\ Len(b.steps) = 10
        /\ b.steps[6] = <<"create_foreign_key_relations", "mysql_db">>
        /\ b.steps[7] = <<"create_database_entity", "postgres_db">>

\* -------------------------------------------------------------------------
\* C8. A configured database whose DDL source is missing is skipped: no
\* builder step runs and no create call is made for it, the store holds
\* nothing of it, it is not counted, the build does not fail because of it,
\* and every other configured database is still processed.
\* -------------------------------------------------------------------------
C8_MissingSourceIsSkipped ==
    \A p \in DOMAIN builders :
        LET b == builders[p] IN
        /\ \A d \in Range(DbKeys) \ Processed :
              /\ \A i \in 1..Len(b.steps) : b.steps[i][2] # d
              /\ \A i \in 1..Len(b.calls) : b.calls[i].db # d
              /\ \A e \in entities :
                    Len(e.name) >= 2 => e.name[2] # DATABASE_CONFIGS[d].name
              /\ \A r \in relations :
                    Len(r.src) >= 2 => r.src[2] # DATABASE_CONFIGS[d].name
        /\ b.faults = 0 => b.pc # "failed"
        /\ b.pc = "done" =>
              /\ b.stats.databases = Cardinality(Processed)
              /\ \A d \in Processed :
                    /\ Entered(b, "create_database_entity", d)
                    /\ ForeignKeysReturned(b, d)

C8_Witness ==
    \E p \in DOMAIN builders :
        LET b == builders[p] IN
        /\ ~sources.mysql_db.exists
        /\ sources.postgres_db.exists
        /\ b.pc = "done"
        /\ b.stats.databases = 1
        /\ DatabaseKey("postgres_db") \in EntityKeys
        /\ DatabaseKey("mysql_db") \notin EntityKeys

\* -------------------------------------------------------------------------
\* C9. Dangling reference: a foreign key whose ref_table is not in the
\* parsed map causes no createRelation call, is not counted and raises
\* nothing, and the remaining foreign keys and tables are still handled.
\* -------------------------------------------------------------------------
LinkedForeignKeys(d) ==
    {pos \in ForeignKeyPositions(sources[d].tables) :
        HasTable(sources[d].tables,
                 sources[d].tables[pos[1]].foreign_keys[pos[2]].ref_table)}

C9_DanglingReferenceIsOmitted ==
    \A p \in DOMAIN builders :
        LET b == builders[p] IN
        /\ \A i \in 1..Len(b.calls) :
              b.calls[i].site = "references" =>
                 \E tb \in Range(sources[b.calls[i].db].tables) :
                    b.calls[i].tgt = TableKey(b.calls[i].db, tb.name)
        /\ \A i \in 1..Len(b.warnings) :
              LET w == b.warnings[i]
                  fk == sources[w[1]].tables[w[2]].foreign_keys[w[3]] IN
              \A tb \in Range(sources[w[1]].tables) : tb.name # fk.ref_table
        /\ b.faults = 0 => b.pc # "failed"
        /\ \A d \in Range(DbKeys) :
              ForeignKeysReturned(b, d) =>
                 Cardinality(CallsOf(b, "references", d, AnyResult))
                    = Cardinality(LinkedForeignKeys(d))
        /\ b.pc = "fk" =>
              b.fk_count
                 = Cardinality(CallsOf(b, "references", DbKeyOf(b), {"ok"}))
        /\ b.pc = "done" =>
              b.stats.foreign_keys
                 = Cardinality(UNION {CallsOf(b, "references", d, {"ok"}) :
                                         d \in Range(DbKeys)})

C9_Witness ==
    \E p \in DOMAIN builders :
        LET b == builders[p] IN
        /\ b.pc = "done"
        /\ b.run = 1
        /\ sources.mysql_db.tables = ShopTables
        /\ b.warnings = << <<"mysql_db", 2, 2>> >>
        /\ Cardinality(CallsOf(b, "references", "mysql_db", AnyResult)) = 2
        /\ b.stats.foreign_keys = 1

\* -------------------------------------------------------------------------
\* C10. The tags derived for a column are exactly those of the six rules,
\* for every combination of the flags and every probe name: Primary_Key iff
\* is_primary_key, Foreign_Key iff is_foreign_key, Required iff not
\* nullable, PII iff the lower-cased name contains "password" or "email",
\* Timestamp iff it contains "time" or "date", Authentication iff it is
\* "password", "token" or "secret"; no tag twice, every tag one of
\* COMMON_TAGS.  The names each rule selects are listed by hand.
\* -------------------------------------------------------------------------
PIINames ==
    {<<"e","m","a","i","l">>, <<"E","m","a","i","l">>, <<"u","s","e","r","_","e","m","a","i","l">>,
     <<"p","a","s","s","w","o","r","d">>, <<"P","a","s","s","w","o","r","d">>}

TimestampNames ==
    {<<"u","p","d","a","t","e","d">>,
     <<"l","o","g","i","n","_","t","i","m","e">>,
     <<"D","A","T","E">>}

AuthenticationNames ==
    {<<"p","a","s","s","w","o","r","d">>,
     <<"P","a","s","s","w","o","r","d">>,
     <<"t","o","k","e","n">>,
     <<"s","e","c","r","e","t">>}

C10_TagsAreExactlyTheSixRules ==
    probe.derived =>
        LET col == probe.column
            tags == Range(probe.tags) IN
        /\ "Primary_Key" \in tags <=> col.is_primary_key
        /\ "Foreign_Key" \in tags <=> col.is_foreign_key
        /\ "Required" \in tags <=> ~col.nullable
        /\ "PII" \in tags <=> col.name \in PIINames
        /\ "Timestamp" \in tags <=> col.name \in TimestampNames
        /\ "Authentication" \in tags <=> col.name \in AuthenticationNames
        /\ tags \subseteq Range(COMMON_TAGS)
        /\ Len(probe.tags) = Cardinality(tags)
        /\ col = Column(TagWords.email, FALSE, FALSE, FALSE) =>
              tags = {"PII", "Required"}

C10_Witness ==
    /\ probe.derived
    /\ probe.column = Column(TagWords.email, FALSE, FALSE, FALSE)
    /\ Range(probe.tags) = {"PII", "Required"}

\* -------------------------------------------------------------------------
\* C11. Catalog growth is monotonic: no step of the builder, in a run that
\* succeeds, in a run that a store failure aborts, or in a later run,
\* removes an entity or a relation from the store, changes the record of
\* one, or adds a second record for a name (or a source/target pair) the
\* store already holds.
\* -------------------------------------------------------------------------
C11_StoreOnlyGrows ==
    [][/\ entities \subseteq entities'
       /\ relations \subseteq relations'
       /\ \A e \in entities' : EntityExists(e.name) => e \in entities
       /\ \A r \in relations' : RelationExists(r.src, r.tgt) => r \in relations
      ]_vars

\* a second run, started after a run that a store failure aborted, has
\* added to the non-empty store the aborted run left
C11_Witness ==
    \E p \in DOMAIN builders :
        LET b == builders[p] IN
        /\ b.run = 2 /\ b.prev = "failed" /\ b.pc = "done"
        /\ b.snapshot[1] # {} /\ b.snapshot[2] # {}
        /\ b.snapshot[1] \subseteq entities /\ b.snapshot[1] # entities
        /\ b.snapshot[2] \subseteq relations /\ b.snapshot[2] # relations

\* -------------------------------------------------------------------------
\* Vocabulary of the formatter's properties
\* -------------------------------------------------------------------------

\* the Database and Table keys of the well-formed Column and Table hits,
\* written out by hand
Lineage ==
    (<<"Column", ":", "db", ".", "users", ".", "email">> :>
        [db |-> <<"Database", ":", "db">>,
         table |-> <<"Table", ":", "db", ".", "users">>])
 @@ (<<"Column", ":", "db", ".", "users", ".", "id">> :>
        [db |-> <<"Database", ":", "db">>,
         table |-> <<"Table", ":", "db", ".", "users">>])
 @@ (<<"Column", ":", "db", ".", "orders", ".", "id">> :>
        [db |-> <<"Database", ":", "db">>,
         table |-> <<"Table", ":", "db", ".", "orders">>])
 @@ (<<"Column", ":", "shop", ".", "users", ".", "id">> :>
        [db |-> <<"Database", ":", "shop">>,
         table |-> <<"Table", ":", "shop", ".", "users">>])
 @@ (<<"Table", ":", "db", ".", "users">> :>
        [db |-> <<"Database", ":", "db">>,
         table |-> <<"Table", ":", "db", ".", "users">>])
 @@ (<<"Table", ":", "db", ".", "orders">> :>
        [db |-> <<"Database", ":", "db">>,
         table |-> <<"Table", ":", "db", ".", "orders">>])
 @@ (<<"Table", ":", "shop", ".", "users">> :>
        [db |-> <<"Database", ":", "shop">>,
         table |-> <<"Table", ":", "shop", ".", "users">>])

ColumnHits == {k \in DOMAIN Lineage : k[1] = "Column"}

\* the Entity keys of a chunk sequence, in order
EntitiesOf(chunks) == [n \in 1..Len(chunks) |-> chunks[n].Entity]

\* the chunks the iteration of hit i emitted, in order
ChunksOfHit(i) == SelectSeq(fmt.chunks, LAMBDA c : c.hit = i)

\* -------------------------------------------------------------------------
\* C12. Formatter, Column hits: when every hit is a Column hit
\* (Column:db.table.column), the chunks a hit's iteration emits are, in this
\* order, the Database chunk of its database if no earlier hit had that
\* database, the Table chunk of its table if no earlier hit had that table,
\* and the Column chunk.
\* -------------------------------------------------------------------------
C12_ColumnHitsExpandOnce ==
    (fmt.pc # "idle" /\ Range(fmt.results) \subseteq ColumnHits) =>
        \A i \in 1..(fmt.i - 1) :
            LET key == fmt.results[i]
                earlier == {fmt.results[j] : j \in 1..(i - 1)}
            IN  EntitiesOf(ChunksOfHit(i)) =
                       Opt(\A k \in earlier : Lineage[k].db # Lineage[key].db,
                           Lineage[key].db)
                    \o Opt(\A k \in earlier :
                               Lineage[k].table # Lineage[key].table,
                           Lineage[key].table)
                    \o <<key>>

\* three Column hits: a first one, one of another table of the database,
\* one of the first table again
C12_Witness ==
    /\ fmt.pc = "returned"
    /\ fmt.results = << <<"Column", ":", "db", ".", "users", ".", "email">>,
                        <<"Column", ":", "db", ".", "orders", ".", "id">>,
                        <<"Column", ":", "db", ".", "users", ".", "id">> >>
    /\ EntitiesOf(fmt.out.chunks) =
          << <<"Database", ":", "db">>,
             <<"Table", ":", "db", ".", "users">>,
             <<"Column", ":", "db", ".", "users", ".", "email">>,
             <<"Table", ":", "db", ".", "orders">>,
             <<"Column", ":", "db", ".", "orders", ".", "id">>,
             <<"Column", ":", "db", ".", "users", ".", "id">> >>

\* -------------------------------------------------------------------------
\* C13. Formatter, Database chunk once: for a list of well-formed Column and
\* Table hits, the returned chunks hold the Database chunk of each database
\* a hit names exactly once, and before every Table or Column chunk of that
\* database; the hits [Column:db.users.email, Table:db.orders] give
\* Database:db, Table:db.users, Column:db.users.email, Table:db.orders.
\* -------------------------------------------------------------------------
C13_DatabaseChunkOnce ==
    (fmt.pc = "returned" /\ Range(fmt.results) \subseteq DOMAIN Lineage) =>
        LET E == EntitiesOf(fmt.out.chunks) IN
        /\ \A k \in Range(fmt.results) :
               LET d == Lineage[k].db IN
               /\ Cardinality({n \in 1..Len(E) : E[n] = d}) = 1
               /\ \A n \in 1..Len(E) :
                      (E[n] \in DOMAIN Lineage /\ Lineage[E[n]].db = d) =>
                          \E m \in 1..(n - 1) : E[m] = d
        /\ fmt.results = << <<"Column", ":", "db", ".", "users", ".", "email">>,
                            <<"Table", ":", "db", ".", "orders">> >>
              => E = << <<"Database", ":", "db">>,
                        <<"Table", ":", "db", ".", "users">>,
                        <<"Column", ":", "db", ".", "users", ".", "email">>,
                        <<"Table", ":", "db", ".", "orders">> >>

\* the formatter has returned for the hits of the example
C13_Witness ==
    /\ fmt.pc = "returned"
    /\ fmt.results = << <<"Column", ":", "db", ".", "users", ".", "email">>,
                        <<"Table", ":", "db", ".", "orders">> >>
    /\ fmt.out.total_chunks = 4
    /\ fmt.out.chunks[1].Entity = <<"Database", ":", "db">>
    /\ fmt.out.chunks[4].Entity = <<"Table", ":", "db", ".", "orders">>

\* -------------------------------------------------------------------------
\* C14. No chunk is content-less: when the lookup returns a string for every
\* key, every returned chunk has a non-empty Content: the lookup result of
\* its Entity when that is non-empty, otherwise the Entity key itself or the
\* placeholder 'Database: X' / 'Table: X in database Y'.
\* -------------------------------------------------------------------------
C14_NoChunkIsContentLess ==
    (/\ fmt.pc = "returned"
     /\ \A c \in DOMAIN fmt.describe : fmt.describe[c] # "raise") =>
        \A n \in 1..Len(fmt.out.chunks) :
            LET chunk == fmt.out.chunks[n] IN
            /\ chunk.Content # << >>
            /\ IF Describe(fmt, chunk.Entity) # << >>
               THEN chunk.Content = Describe(fmt, chunk.Entity)
               ELSE chunk.Content \in
                      { chunk.Entity,
                        <<"Database: ", "db">>, <<"Database: ", "shop">>,
                        <<"Table: ", "users", " in database ", "db">>,
                        <<"Table: ", "orders", " in database ", "db">>,
                        <<"Table: ", "users", " in database ", "shop">> }

\* -------------------------------------------------------------------------
\* C15. Formatter labels and order: the returned chunks are labelled chunk1,
\* chunk2, ..., chunkN in emission order and total_chunks is N; the hits'
\* own chunks carry the hits' keys and come in input order; every ancestor
\* chunk is followed by a chunk of the same hit, so that a hit's ancestors
\* stand immediately before its own chunk; a second call with the same hits
\* and lookup returns what the first call returned.
\* -------------------------------------------------------------------------
C15_LabelsAndOrder ==
    fmt.pc = "returned" =>
        LET C == fmt.out.chunks IN
        /\ \A n \in 1..Len(C) : C[n].Label = <<"chunk", n>>
        /\ fmt.out.total_chunks = Len(C)
        /\ \A n \in 1..Len(C) :
               /\ C[n].own => C[n].Entity = fmt.results[C[n].hit]
               /\ \A m \in 1..(n - 1) :
                      /\ C[m].hit <= C[n].hit
                      /\ (C[m].own /\ C[n].own) => C[m].hit < C[n].hit
               /\ ~C[n].own => (n < Len(C) /\ C[n + 1].hit = C[n].hit)
        /\ fmt.call = 2 => fmt.first = <<fmt.out>>

\* the second call has returned five chunks for a Column hit, a hit without
\* ':' and a Table hit of the same database
C15_Witness ==
    /\ fmt.pc = "returned"
    /\ fmt.call = 2
    /\ fmt.results = << <<"Column", ":", "db", ".", "users", ".", "email">>,
                        <<"users">>,
                        <<"Table", ":", "db", ".", "orders">> >>
    /\ fmt.out.total_chunks = 5
    /\ fmt.out.chunks[5].Label = <<"chunk", 5>>
    /\ fmt.first = <<fmt.out>>

\* -------------------------------------------------------------------------
\* C16. Lookup degradation: a lookup that raises or returns '' for a hit or
\* for one of its ancestors does not abort the call; the call returns, and
\* the chunk whose lookup gave no description holds the raw key or the
\* placeholder.
\* -------------------------------------------------------------------------
C16_LookupFailureDoesNotAbort ==
    /\ fmt.pc # "raised"
    /\ fmt.pc = "returned" =>
           \A n \in 1..Len(fmt.out.chunks) :
               LET chunk == fmt.out.chunks[n] IN
               fmt.describe[LookupClass(chunk.Entity)] # "text" =>
                   chunk.Content \in
                      { chunk.Entity,
                        <<"Database: ", "db">>, <<"Database: ", "shop">>,
                        <<"Table: ", "users", " in database ", "db">>,
                        <<"Table: ", "orders", " in database ", "db">>,
                        <<"Table: ", "users", " in database ", "shop">> }

\* -------------------------------------------------------------------------
\* Vocabulary of the MySQL parser's properties
\* -------------------------------------------------------------------------

\* the lines of MySQLLines that hold one column definition, with the name
\* of their column, written out by hand
MySQLColumnLines ==
    (1 :> <<"i","d">>) @@ (2 :> <<"e","m","a","i","l">>)
 @@ (3 :> <<"k","e","y","_","i","d">>) @@ (4 :> <<"i","d">>)
 @@ (5 :> <<"e","m","a","i","l">>)

\* the lines of MySQLLines that are a PRIMARY KEY clause, with the names
\* the clause lists
MySQLClauseLines ==
    (7 :> {<<"i","d">>}) @@ (8 :> {<<"i","d">>, <<"e","m","a","i","l">>})

\* -------------------------------------------------------------------------
\* C17. A MySQL body of N column-definition lines followed by a PRIMARY KEY
\* clause gives a table with exactly N columns, named as the lines name
\* them and in the order of the lines, and is_primary_key is true for
\* exactly the columns the clause names.
\* -------------------------------------------------------------------------
C17_ColumnsThenPrimaryKeyClause ==
    LET src == parser.src
        N == Len(src) - 1
        columns == parser.table.columns
    IN  (/\ parser.pc = "done"
         /\ N >= 1
         /\ src[N + 1] \in DOMAIN MySQLClauseLines
         /\ \A k \in 1..N : src[k] \in DOMAIN MySQLColumnLines) =>
            /\ Len(columns) = N
            /\ \A k \in 1..Len(columns) :
                   /\ columns[k].name = MySQLColumnLines[src[k]]
                   /\ columns[k].is_primary_key
                         <=> columns[k].name \in MySQLClauseLines[src[N + 1]]

\* the table of the literal example: id (INT, primary key, auto-increment,
\* nullable as its definition has no NOT NULL) and email (VARCHAR(255), not
\* nullable), primary_keys = ["id"]
IsIdAndEmail(table) ==
    /\ Len(table.columns) = 2
    /\ table.columns[1].name = <<"i","d">>
    /\ table.columns[1].data_type = <<"I","N","T">>
    /\ table.columns[1].is_primary_key
    /\ table.columns[1].auto_increment
    /\ table.columns[1].nullable
    /\ table.columns[2].name = <<"e","m","a","i","l">>
    /\ table.columns[2].data_type = <<"V","A","R","C","H","A","R","(","2","5","5",")">>
    /\ ~table.columns[2].nullable
    /\ table.primary_keys = << <<"i","d">> >>

\* -------------------------------------------------------------------------
\* C18, as stated. The body `id INT PRIMARY KEY AUTO_INCREMENT, email
\* VARCHAR(255) NOT NULL`, one line, parses to the two columns id and email
\* of the example with primary_keys = ["id"].
\* -------------------------------------------------------------------------
C18_LiteralBody ==
    (parser.pc = "done" /\ parser.src = <<6>>) => IsIdAndEmail(parser.table)

\* -------------------------------------------------------------------------
\* C18, amended. The same two definitions, each on its own line, parse to
\* the two columns id and email of the example with primary_keys = ["id"];
\* and in every body a column is non-nullable only when the line it was
\* parsed from carries NOT NULL.
\* -------------------------------------------------------------------------
C18_LiteralBodyOnTwoLines ==
    parser.pc = "done" =>
        /\ parser.src = <<4, 5>> => IsIdAndEmail(parser.table)
        /\ \A k \in 1..Len(parser.table.columns) :
               LET column == parser.table.columns[k] IN
               ~column.nullable =>
                   Contains(<<"N","O","T"," ","N","U","L","L">>,
                            Upper(parser.lines[column.line]))

\* the two-line body has been parsed
C18_Witness ==
    /\ parser.pc = "done"
    /\ parser.src = <<4, 5>>
    /\ Len(parser.table.columns) = 2
    /\ ~parser.table.columns[2].nullable
    /\ parser.table.columns[1].nullable

\* -------------------------------------------------------------------------
\* PostgreSQL dumps: what the statements of PgStatements say, read by hand
\* -------------------------------------------------------------------------

\* the CREATE TABLE headers: the statement, the table it names and the
\* number of characters up to and with its opening parenthesis
PgHeaders ==
    {[stmt |-> 1, name |-> <<"u","s","e","r","s">>, open |-> 20],
     [stmt |-> 2, name |-> <<"o","r","d","e","r","s">>, open |-> 28],
     [stmt |-> 5, name |-> <<"l","o","g","s">>, open |-> 19],
     [stmt |-> 6, name |-> <<"b","r","o","k","e","n">>, open |-> 21],
     [stmt |-> 9, name |-> <<"n","o","t","e","s">>, open |-> 20]}

\* the ALTER TABLE ... FOREIGN KEY statements: the statement, the table it
\* alters, the statement that declares that table, the foreign key it adds
PgAlterForeignKeys ==
    {[stmt |-> 3, table |-> <<"o","r","d","e","r","s">>, create |-> 2,
      fk |-> [column |-> <<"u","s","e","r","_","i","d">>, ref_table |-> <<"u","s","e","r","s">>,
           ref_column |-> <<"i","d">>,
           constraint_name |-> <<"o","r","d","e","r","s","_","u","s","e","r","_","f","k">>]],
     [stmt |-> 8, table |-> <<"o","r","d","e","r","s">>, create |-> 2,
      fk |-> [column |-> <<"r","e","f">>, ref_table |-> <<"u","s","e","r","s">>,
           ref_column |-> <<"i","d">>,
           constraint_name |-> <<"o","r","d","e","r","s","_","r","e","f","_","f","k">>]]}

\* the headers of the text made of the statements src, as the positions in
\* src of the statements that have one
HeadersIn(src) ==
    {k \in 1..Len(src) : \E h \in PgHeaders : h.stmt = src[k]}

\* the position in the text of the character after the opening parenthesis
\* of the header of the k-th statement of src
BodyStart(src, k) ==
    LET h == CHOOSE h \in PgHeaders : h.stmt = src[k] IN
    Len(Concat(PgStatements, SubSeq(src, 1, k - 1))) + h.open + 1

\* the parentheses of s from position start on
Parens(s, start) == {k \in start..Len(s) : s[k] \in {"(", ")"}}

\* the closing parentheses of the set parens before which, themselves
\* included, one more parenthesis closes than opens
Closes(s, parens) ==
    {c \in parens :
        /\ s[c] = ")"
        /\ Cardinality({k \in parens : k <= c /\ s[k] = ")"})
             = 1 + Cardinality({k \in parens : k <= c /\ s[k] = "("})}

\* the least member of a set of positions, 0 if it has none
First(positions) ==
    IF positions = {} THEN 0
    ELSE CHOOSE c \in positions : \A d \in positions : c <= d

\* the close that matches the parenthesis opened before start, 0 without one
MatchingClose(s, start) == First(Closes(s, Parens(s, start)))

\* a ';' follows position c: at once, or after white space only
TerminatorAfter(s, c, at_once) ==
    IF at_once THEN c + 1 <= Len(s) /\ s[c + 1] = ";"
    ELSE \E j \in (c + 1)..Len(s) :
             /\ s[j] = ";"
             /\ \A m \in (c + 1)..(j - 1) : s[m] \in Whitespace

\* scan, the record of one iteration over a header whose parenthesis has
\* its matching close at position close, is what the text says: accepted if
\* and only if there is that close and the terminator follows it, and then
\* with the text between the parentheses as body
ScanClosedAt(s, scan, close, at_once) ==
    /\ scan.accepted <=> (close # 0 /\ TerminatorAfter(s, close, at_once))
    /\ scan.accepted => scan.table_def = SubSeq(s, scan.start, close - 1)

ScanAsStated(s, scan, at_once) ==
    ScanClosedAt(s, scan, MatchingClose(s, scan.start), at_once)

\* every header of the text was iterated over once the first loop is left,
\* and the tables are those of the accepted iterations
HeadersAsStated ==
    /\ \A k \in 1..Len(parser.scans) :
           \E j \in HeadersIn(parser.src) :
               /\ parser.scans[k].start = BodyStart(parser.src, j)
               /\ \E h \in PgHeaders :
                      /\ h.stmt = parser.src[j]
                      /\ h.name = parser.scans[k].name
    /\ {parser.tables[n].name : n \in 1..Len(parser.tables)}
          \subseteq {parser.scans[k].name :
                        k \in {m \in 1..Len(parser.scans) :
                                  parser.scans[m].accepted}}
    /\ parser.pc \in {"pk", "fk", "done"} =>
          /\ Len(parser.scans) = Cardinality(HeadersIn(parser.src))
          /\ \A j \in HeadersIn(parser.src) :
                 \E k \in 1..Len(parser.scans) :
                     parser.scans[k].start = BodyStart(parser.src, j)
          /\ \A k \in 1..Len(parser.scans) :
                 parser.scans[k].accepted =>
                     \E n \in 1..Len(parser.tables) :
                         parser.tables[n].name = parser.scans[k].name

\* C19: when a dump declares a table with CREATE TABLE and holds, before or
\* after it, an ALTER TABLE ... ADD CONSTRAINT ... FOREIGN KEY on that table,
\* the table that parse returns has the foreign key with that column,
\* ref_table, ref_column and constraint name, and its column of that name,
\* if it has one, has is_foreign_key true; and a foreign key with a
\* constraint name is in a table only once every CREATE TABLE header of the
\* text was iterated over.
C19_TwoPassForeignKeys ==
    /\ parser.pc = "done" =>
         \A a \in PgAlterForeignKeys :
             a.stmt \in Range(parser.src) /\ a.create \in Range(parser.src) =>
                 \E n \in 1..Len(parser.tables) :
                     /\ parser.tables[n].name = a.table
                     /\ a.fk \in Range(parser.tables[n].foreign_keys)
                     /\ \A c \in 1..Len(parser.tables[n].columns) :
                            parser.tables[n].columns[c].name = a.fk.column
                                => parser.tables[n].columns[c].is_foreign_key
    /\ (\E n \in 1..Len(parser.tables) :
            \E f \in Range(parser.tables[n].foreign_keys) :
                f.constraint_name # << >>) =>
         /\ parser.pc \in {"fk", "done"}
         /\ Len(parser.scans) = Cardinality(HeadersIn(parser.src))

\* parse returned for a dump whose ALTER TABLE comes before the CREATE TABLE
\* of the table it alters: the foreign key is there and user_id is marked
C19_Witness ==
    /\ parser.pc = "done"
    /\ \E j, k \in 1..Len(parser.src) :
           j < k /\ parser.src[j] = 3 /\ parser.src[k] = 2
    /\ \E n \in 1..Len(parser.tables) :
           /\ parser.tables[n].name = <<"o","r","d","e","r","s">>
           /\ \E f \in Range(parser.tables[n].foreign_keys) :
                  f.constraint_name = <<"o","r","d","e","r","s","_","u","s","e","r","_","f","k">>
           /\ \E c \in 1..Len(parser.tables[n].columns) :
                  /\ parser.tables[n].columns[c].name = <<"u","s","e","r","_","i","d">>
                  /\ parser.tables[n].columns[c].is_foreign_key

\* C20, as stated: a CREATE TABLE header yields a table if and only if the
\* scan from depth 1 after its opening parenthesis reaches depth 0 and ';'
\* is the character right after that close; the body is the text between
\* the two parentheses; a header that fails adds no table and the headers
\* after it are still iterated over.
C20_BlockMatching ==
    /\ \A k \in 1..Len(parser.scans) :
           ScanAsStated(parser.sql_content, parser.scans[k], TRUE)
    /\ HeadersAsStated

\* C20, amended: as above, with ';' as the first character after the close
\* that is not white space.
C20_BlockMatchingWhiteSpaceApart ==
    /\ \A k \in 1..Len(parser.scans) :
           ScanAsStated(parser.sql_content, parser.scans[k], FALSE)
    /\ HeadersAsStated

\* parse returned for a dump where a header that failed comes before one
\* that yielded a table whose body has parentheses of its own
C20_Witness ==
    /\ parser.pc = "done"
    /\ \E j, k \in 1..Len(parser.scans) :
           /\ j < k
           /\ ~parser.scans[j].accepted
           /\ parser.scans[k].accepted
           /\ "(" \in Range(parser.scans[k].table_def)
           /\ \E n \in 1..Len(parser.tables) :
                  parser.tables[n].name = parser.scans[k].name

\* -------------------------------------------------------------------------
\* Tables: what a returned Table holds
\* -------------------------------------------------------------------------

\* C22: in the Table that _parse_mysql_table_definition returns, no two
\* columns have the same name, whatever the body text.
C22_ColumnNamesUnique ==
    parser.pc = "done" =>
        \A i, j \in 1..Len(parser.table.columns) :
            parser.table.columns[i].name = parser.table.columns[j].name
                => i = j

\* C27: in the Table that _parse_mysql_table_definition returns,
\* primary_keys holds no name twice, and a column's name is in primary_keys
\* exactly when the column's is_primary_key flag is set.  Stated for the
\* Tables whose column names are unique, those C22 is not about.
C27_PrimaryKeysConsistent ==
    parser.pc = "done" /\ C22_ColumnNamesUnique =>
        /\ \A i, j \in 1..Len(parser.table.primary_keys) :
               parser.table.primary_keys[i] = parser.table.primary_keys[j]
                   => i = j
        /\ \A n \in 1..Len(parser.table.columns) :
               parser.table.columns[n].name
                       \in Range(parser.table.primary_keys)
                   <=> parser.table.columns[n].is_primary_key

\* -------------------------------------------------------------------------
\* format_chunks_hierarchical: the entities of the chunks
\* -------------------------------------------------------------------------

\* C25: when the hits of a call have pairwise distinct entity keys, no
\* entity key is the Entity of two chunks of the returned dictionary.
C25_NoRepeatedEntity ==
    (/\ fmt.pc = "returned"
     /\ \A i, j \in 1..Len(fmt.results) :
            fmt.results[i] = fmt.results[j] => i = j)
        => \A m, n \in 1..Len(fmt.out.chunks) :
               fmt.out.chunks[m].Entity = fmt.out.chunks[n].Entity => m = n

\* C26: the returned dictionary holds, for every hit, a chunk whose Entity
\* is the hit's entity key, and it holds at least as many chunks as there
\* are hits.
C26_NoHitDropped ==
    fmt.pc = "returned" =>
        /\ \A i \in 1..Len(fmt.results) :
               \E n \in 1..Len(fmt.out.chunks) :
                   fmt.out.chunks[n].Entity = fmt.results[i]
        /\ Len(fmt.out.chunks) >= Len(fmt.results)

\* -------------------------------------------------------------------------
\* The catalog: relations and their endpoints
\* -------------------------------------------------------------------------

\* the entity types a relation of each type joins, source then target
EndpointTypes ==
    [HAS_TABLE  |-> <<"database", "table">>,
     OWNED_BY   |-> <<"table", "owner">>,
     HAS_COLUMN |-> <<"table", "column">>,
     TAGGED     |-> <<"column", "tag">>,
     REFERENCES |-> <<"table", "table">>]

HasEntity(name, entity_type) ==
    \E e \in entities : e.name = name /\ e.entity_type = entity_type

\* C28: in every state of a build that started on an empty store, every
\* relation of the store has its source entity and its target entity in
\* the store, each of the type the relation's type asks for.  The claim
\* asks it of the builds that meet no store failure other than "already
\* exists"; it is stated here of every build, those included.
C28_RelationsHaveEndpoints ==
    \A r \in relations :
        /\ r.relation_type \in DOMAIN EndpointTypes
        /\ HasEntity(r.src, EndpointTypes[r.relation_type][1])
        /\ HasEntity(r.tgt, EndpointTypes[r.relation_type][2])

\* a failure-free first build has stored a relation of each of the five
\* types
C28_Witness ==
    /\ failures = 0
    /\ \E p \in DOMAIN builders :
           builders[p].run = 1 /\ builders[p].pc = "done"
    /\ {r.relation_type : r \in relations} = DOMAIN EndpointTypes

\* -------------------------------------------------------------------------
\* PostgreSQL: primary keys, in a body and out of line.  What the
\* statements 1, 3, 4 and 10 to 14 say, read by hand
\* -------------------------------------------------------------------------

\* the ALTER TABLE ... ADD CONSTRAINT ... PRIMARY KEY statements: the
\* statement, the table it alters and the columns it lists
PgAlterPrimaryKeys ==
    {[stmt |-> 4, table |-> <<"u","s","e","r","s">>,
      columns |-> {<<"i","d">>}],
     [stmt |-> 13, table |-> <<"u","s","e","r","s">>,
      columns |-> {<<"i","d">>}]}

\* the CREATE TABLE statements: the statement, the table it declares, the
\* first words of its column-definition lines in order, and the columns its
\* table-level PRIMARY KEY constraint lists
PgBodies ==
    {[stmt |-> 1, name |-> <<"u","s","e","r","s">>,
      columns |-> << <<"i","d">>, <<"e","m","a","i","l">> >>, keys |-> {}],
     [stmt |-> 10, name |-> <<"t","a","g","s">>,
      columns |-> << <<"i","d">> >>, keys |-> {<<"i","d">>}],
     [stmt |-> 11, name |-> <<"p","a","i","r","s">>,
      columns |-> << <<"a">>, <<"b">> >>, keys |-> {<<"a">>, <<"b">>}],
     [stmt |-> 12, name |-> <<"i","t","e","m","s">>,
      columns |-> << <<"i","t","e","m","_","i","d">>, <<"n","a","m","e">> >>,
      keys |-> {}],
     [stmt |-> 14, name |-> <<"m","i","s","c">>,
      columns |-> << <<"i","d">> >>, keys |-> {}]}

\* parse has returned from a PostgreSQL dump
PgParsed == parser.pc = "done" /\ "sql_content" \in DOMAIN parser

\* the columns named by keys are in primary_keys of table, and every
\* column of table with one of these names has is_primary_key set
KeysDeclared(table, keys) ==
    /\ keys \subseteq Range(table.primary_keys)
    /\ \A n \in 1..Len(table.columns) :
           table.columns[n].name \in keys
               => table.columns[n].is_primary_key

\* C21: after parse, for every ALTER TABLE ... ADD CONSTRAINT <name> PRIMARY
\* KEY (cols) statement of the dump, whatever the constraint's name, and
\* every returned table it names, cols are in the table's primary_keys and
\* the table's columns of these names have is_primary_key set.
C21_OutOfLinePrimaryKeys ==
    PgParsed =>
        \A k \in 1..Len(parser.src) :
            \A pk \in PgAlterPrimaryKeys :
                pk.stmt = parser.src[k] =>
                    \A n \in 1..Len(parser.tables) :
                        parser.tables[n].name = pk.table
                            => KeysDeclared(parser.tables[n], pk.columns)

\* C29: after parse, the table of every CREATE TABLE statement of the dump
\* holds exactly one Column for each column-definition line of the body,
\* named by the line's first word and in the order of the lines, none for
\* a table-level PRIMARY KEY constraint line, and the columns such a line
\* lists are in primary_keys and marked.
C29_BodyLinesClassified ==
    PgParsed =>
        \A k \in 1..Len(parser.src) :
            \A body \in PgBodies :
                body.stmt = parser.src[k] =>
                    \E n \in 1..Len(parser.tables) :
                        /\ parser.tables[n].name = body.name
                        /\ [c \in 1..Len(parser.tables[n].columns) |->
                               parser.tables[n].columns[c].name]
                             = body.columns
                        /\ KeysDeclared(parser.tables[n], body.keys)

\* -------------------------------------------------------------------------
\* Body lines that match no pattern
\* -------------------------------------------------------------------------

\* read by hand: the lines of MySQLLines that are neither a PRIMARY KEY
\* clause, a FOREIGN KEY or CONSTRAINT clause, a KEY, INDEX or UNIQUE clause
\* nor a column definition
MySQLMalformedLines == {11}

\* read by hand: the body lines of the CREATE TABLE statements of
\* PgStatements that are neither a constraint nor a column definition, as
\* the table and the number of the line in the split body
PgMalformedLines == {[name |-> <<"m","i","s","c">>, line |-> 3]}

\* the loop of either body parser is about to take a malformed line
AtMalformedLine ==
    \/ /\ parser.pc = "lines"
       /\ parser.i \in 2..(Len(parser.src) + 1)
       /\ parser.src[parser.i - 1] \in MySQLMalformedLines
    \/ /\ parser.pc = "body"
       /\ \E m \in PgMalformedLines :
              parser.table.name = m.name /\ parser.j = m.line

\* C23: a body line that matches none of the structural patterns
\* contributes nothing: the iteration that takes it leaves the Table as the
\* lines before it made it, does not end the parse, and the loop goes on
\* with the next line, so that the other lines are parsed as if the line
\* were absent.
C23_MalformedLineContributesNothing ==
    [][AtMalformedLine =>
          /\ parser'.table = parser.table
          /\ parser'.pc = parser.pc
          /\ IF parser.pc = "lines" THEN parser'.i = parser.i + 1
             ELSE parser'.j = parser.j + 1]_vars

\* a MySQL body with a malformed line between a column line and the PRIMARY
\* KEY clause is parsed to the end: one column, marked by the clause
C23_Witness ==
    /\ parser.pc = "done"
    /\ "table_def" \in DOMAIN parser
    /\ parser.src = <<1, 11, 7>>
    /\ Len(parser.table.columns) = 1
    /\ parser.table.columns[1].name = <<"i","d">>
    /\ parser.table.columns[1].is_primary_key
    /\ parser.table.primary_keys = << <<"i","d">> >>

\* -------------------------------------------------------------------------
\* C24. Concurrent builds: two builds of the same sources that interleave
\* at their store calls, on a store that answers "already exists" on a
\* present key and fails in no other way, both return without an exception,
\* and the store then holds exactly the entities and relations of one
\* uninterrupted build: the expected keys, one record per key, and for a
\* pair of tables the first foreign key of the source table.
\* -------------------------------------------------------------------------
BothDone == \A p \in DOMAIN builders : builders[p].pc = "done"

FirstForeignKeyWins ==
    \A r \in relations :
        r.relation_type = "REFERENCES" =>
            \E d \in Processed :
              \E t \in 1..Len(sources[d].tables) :
                LET table == sources[d].tables[t] IN
                \E f \in 1..Len(table.foreign_keys) :
                    LET fk == table.foreign_keys[f] IN
                    /\ r.src = TableKey(d, table.name)
                    /\ r.tgt = TableKey(d, fk.ref_table)
                    /\ r.from_column = fk.column
                    /\ r.to_column = fk.ref_column
                    /\ \A g \in 1..(f - 1) :
                          table.foreign_keys[g].ref_table # fk.ref_table

OneRecordPerKey ==
    /\ Cardinality(entities) = Cardinality(EntityKeys)
    /\ Cardinality(relations) = Cardinality({<<r.src, r.tgt>> : r \in relations})

ConcurrentBuildsSafe ==
    /\ \A p \in DOMAIN builders : builders[p].pc # "failed"
    /\ BothDone => StoreIsExpected /\ FirstForeignKeyWins /\ OneRecordPerKey

C24_ConcurrentBuildsAgree == []ConcurrentBuildsSafe /\ <>BothDone

C24_Witness ==
    /\ BothDone
    /\ Cardinality(DOMAIN builders) = 2
    /\ sources.mysql_db.tables = ShopTables
    /\ sources.postgres_db.tables = LegacyTables
    /\ \A p \in DOMAIN builders : builders[p].stats.columns > 0
    /\ \E p \in DOMAIN builders :
          /\ builders[p].stats.columns = 1
          /\ builders[p].stats.foreign_keys = 1
    /\ StoreIsExpected

\* -------------------------------------------------------------------------
\* C30. The two hierarchy formatters agree: when RAGService.query and
\* format_chunks_hierarchical have both returned for the same hits, their
\* chunks carry the same sequence of Entity keys.
\* -------------------------------------------------------------------------
C30_FormattersAgree ==
    (fmt.pc = "returned" /\ query.pc = "returned") =>
        EntitiesOf(query.out.chunks) = EntitiesOf(fmt.out.chunks)

====
